---- MODULE Spec2Model ----
(***************************************************************************)
(* Model of the monitoring-and-remediation core of Monitor-App:            *)
(*   backend/process_monitor.py   ProcessMonitor                           *)
(*   backend/restart_scheduler.py RestartScheduler                         *)
(*   backend/bms_log_monitor.py   BMSLogMonitor, is_bms_process            *)
(*                                                                         *)
(* Python values are represented as follows.                               *)
(*   None            the empty sequence << >>                              *)
(*   str             a sequence of one-character strings                   *)
(*   datetime        an integer number of seconds since midnight of day 0  *)
(*                   (Thai time; the zone is fixed, so no DST)             *)
(*   ISO string      the tuple <<day, hour, minute, second>> that          *)
(*                   isoformat() writes and fromisoformat() reads          *)
(*   dict            a sequence of <<key, value>> records in insertion     *)
(*                   order (schedule tables) or a function with an         *)
(*                   explicit domain (monitor tables)                      *)
(***************************************************************************)
EXTENDS Integers, Sequences, FiniteSets, TLC

None == << >>

(***************************************************************************)
(* Strings                                                                 *)
(***************************************************************************)
Str3(a, b, c) == <<a, b, c>>

BMS_EXE == Str3("b", "m", "s")
APP_EXE == Str3("a", "p", "p")
BMS_UPPER == Str3("B", "M", "S")

\* names a user registers / schedules
Names == {BMS_EXE, APP_EXE}
\* names an OS process can carry
OSNames == {BMS_EXE, APP_EXE, BMS_UPPER}

Lower(s) ==
  \* str.lower() on one character
  LET LowerChar(c) ==
        CASE c = "B" -> "b"
          [] c = "M" -> "m"
          [] c = "S" -> "s"
          [] c = "A" -> "a"
          [] c = "P" -> "p"
          [] OTHER -> c
  IN
  [i \in DOMAIN s |-> LowerChar(s[i])]

\* Python's  pat in s
Contains(pat, s) ==
  \E i \in 0..(Len(s) - Len(pat)) :
     \A j \in 1..Len(pat) : s[i + j] = pat[j]

\* is_bms_process(process_name) as the scheduler calls it (no window title)
is_bms_process(process_name) ==
  LET bms_patterns ==
        << <<"b", "m", "s">>,
           <<"h", "o", "s", "x", "p">>,
           <<"l", "i", "s">>,
           <<"g", "a", "t", "e", "w", "a", "y">>,
           <<"h", "l", "7">> >>
  IN
  \E k \in DOMAIN bms_patterns : Contains(bms_patterns[k], Lower(process_name))

(***************************************************************************)
(* Time                                                                    *)
(***************************************************************************)
SecondsPerMinute == 60
SecondsPerHour == 60 * SecondsPerMinute
SecondsPerDay == 24 * SecondsPerHour

\* datetime.isoformat()
isoformat(t) ==
  << t \div SecondsPerDay,
     (t % SecondsPerDay) \div SecondsPerHour,
     (t % SecondsPerHour) \div SecondsPerMinute,
     t % SecondsPerMinute >>

\* datetime.fromisoformat()
fromisoformat(s) ==
  s[1] * SecondsPerDay + s[2] * SecondsPerHour + s[3] * SecondsPerMinute + s[4]

Digits == <<"0", "1", "2", "3", "4", "5", "6", "7", "8", "9">>

\* int(s) for an unsigned decimal string; callers check IsIntStr first
RECURSIVE IntOf(_)
IntOf(s) ==
  LET DigitVal(c) == (CHOOSE d \in DOMAIN Digits : Digits[d] = c) - 1
  IN
  IF Len(s) = 0 THEN 0
  ELSE IntOf(SubSeq(s, 1, Len(s) - 1)) * 10 + DigitVal(s[Len(s)])

\* hour, minute = map(int, daily_time.split(':')) followed by
\* now.replace(hour=hour, minute=minute, second=0, microsecond=0):
\* <<hour, minute>> when neither raises, None when either raises ValueError
ParseDailyTime(daily_time) ==
  \* int(s) does not raise ValueError
  LET IsIntStr(s) ==
        LET IsDigit(c) == \E d \in DOMAIN Digits : Digits[d] = c
        IN
        Len(s) > 0 /\ \A i \in DOMAIN s : IsDigit(s[i])
  IN
  \* positions of ':' in s
  LET ColonPositions(s) == {i \in DOMAIN s : s[i] = ":"}
  IN
  IF Cardinality(ColonPositions(daily_time)) # 1 THEN None
  ELSE LET c == CHOOSE i \in ColonPositions(daily_time) : TRUE
           hs == SubSeq(daily_time, 1, c - 1)
           ms == SubSeq(daily_time, c + 1, Len(daily_time))
       IN IF ~(IsIntStr(hs) /\ IsIntStr(ms)) THEN None
          ELSE IF IntOf(hs) > 23 \/ IntOf(ms) > 59 THEN None
          ELSE <<IntOf(hs), IntOf(ms)>>

\* x or 0   for an Optional[int] field
OrZero(x) == IF x = None THEN 0 ELSE x[1]

\* _calculate_next_restart without the total_seconds > 0 test of line 196
NextRestartNoPositiveGuard(schedule, now) ==
  IF schedule.type = "interval" THEN
    LET total_seconds == OrZero(schedule.intervalMinutes) * SecondsPerMinute
                          + OrZero(schedule.intervalSeconds)
    IN isoformat(now + total_seconds)
  ELSE IF schedule.type = "daily" THEN
    IF schedule.dailyTime = None THEN None
    ELSE LET hm == ParseDailyTime(schedule.dailyTime)
         IN IF hm = None THEN None
            ELSE LET next_time == (now \div SecondsPerDay) * SecondsPerDay
                                   + hm[1] * SecondsPerHour + hm[2] * SecondsPerMinute
                 IN IF next_time <= now
                    THEN isoformat(next_time + SecondsPerDay)
                    ELSE isoformat(next_time)
  ELSE None

\* RestartScheduler._calculate_next_restart(schedule, from_time=now)
_calculate_next_restart(schedule, now) ==
  IF schedule.type = "interval" THEN
    LET total_seconds == OrZero(schedule.intervalMinutes) * SecondsPerMinute
                          + OrZero(schedule.intervalSeconds)
    IN IF total_seconds > 0 THEN isoformat(now + total_seconds) ELSE None
  ELSE IF schedule.type = "daily" THEN
    IF schedule.dailyTime = None THEN None
    ELSE LET hm == ParseDailyTime(schedule.dailyTime)
         IN IF hm = None THEN None
            ELSE LET next_time == (now \div SecondsPerDay) * SecondsPerDay
                                   + hm[1] * SecondsPerHour + hm[2] * SecondsPerMinute
                 IN IF next_time <= now
                    THEN isoformat(next_time + SecondsPerDay)
                    ELSE isoformat(next_time)
  ELSE None

\* _calculate_next_check moving to tomorrow only when HH:MM is before now
NextCheckNoRollover(schedule, now) ==
  IF schedule.type = "interval" THEN
    LET total_seconds == OrZero(schedule.intervalMinutes) * SecondsPerMinute
                          + OrZero(schedule.intervalSeconds)
    IN IF total_seconds > 0 THEN isoformat(now + total_seconds) ELSE None
  ELSE IF schedule.type = "daily" THEN
    IF schedule.dailyTime = None THEN None
    ELSE LET hm == ParseDailyTime(schedule.dailyTime)
         IN IF hm = None THEN None
            ELSE LET next_time == (now \div SecondsPerDay) * SecondsPerDay
                                   + hm[1] * SecondsPerHour + hm[2] * SecondsPerMinute
                 IN IF next_time < now
                    THEN isoformat(next_time + SecondsPerDay)
                    ELSE isoformat(next_time)
  ELSE None

\* RestartScheduler._calculate_next_check(schedule, from_time=now)
_calculate_next_check(schedule, now) ==
  IF schedule.type = "interval" THEN
    LET total_seconds == OrZero(schedule.intervalMinutes) * SecondsPerMinute
                          + OrZero(schedule.intervalSeconds)
    IN IF total_seconds > 0 THEN isoformat(now + total_seconds) ELSE None
  ELSE IF schedule.type = "daily" THEN
    IF schedule.dailyTime = None THEN None
    ELSE LET hm == ParseDailyTime(schedule.dailyTime)
         IN IF hm = None THEN None
            ELSE LET next_time == (now \div SecondsPerDay) * SecondsPerDay
                                   + hm[1] * SecondsPerHour + hm[2] * SecondsPerMinute
                 IN IF next_time <= now
                    THEN isoformat(next_time + SecondsPerDay)
                    ELSE isoformat(next_time)
  ELSE None

(***************************************************************************)
(* dict with insertion order: a sequence of [key, value] records           *)
(***************************************************************************)
DictKeys(d) == [i \in DOMAIN d |-> d[i].key]

DictHas(d, k) == \E i \in DOMAIN d : d[i].key = k

DictGet(d, k) == d[CHOOSE i \in DOMAIN d : d[i].key = k].value

\* d[k] = v : an existing key keeps its position, a new key goes last
DictPut(d, k, v) ==
  IF DictHas(d, k)
  THEN [i \in DOMAIN d |-> IF d[i].key = k THEN [key |-> k, value |-> v] ELSE d[i]]
  ELSE Append(d, [key |-> k, value |-> v])

\* del d[k]
DictDel(d, k) == SelectSeq(d, LAMBDA e : e.key # k)

(***************************************************************************)
(* State                                                                   *)
(***************************************************************************)
VARIABLES
  now,                      \* time.time() / datetime.now(THAI_TZ), in seconds
  clock_steps,              \* number of times the clock has advanced
  os_procs,                 \* running OS processes: set of [pid, name, read_bytes,
                            \* write_bytes]; a pid is never reused
  next_pid,                 \* next pid the OS hands out
  monitored_processes,      \* ProcessMonitor.monitored_processes
  prev_process_status,      \* ProcessMonitor.prev_process_status
  process_stopped_time,     \* ProcessMonitor.process_stopped_time
  process_stopped_alerted,  \* ProcessMonitor.process_stopped_alerted
  alerts,                   \* ProcessMonitor.alerts  (deque, maxlen 100)
  alert_settings,           \* ProcessMonitor.alert_settings
  thresholds,               \* ProcessMonitor.thresholds
  history_length,           \* settings.history_length (read from the environment)
  process_history,          \* ProcessMonitor.process_history
  prev_metrics,             \* ProcessMonitor.prev_metrics
  processes_file,           \* content of monitored_processes.json
  down,                     \* history: observations of each name since it was last seen running
  schedules,                \* RestartScheduler.schedules
  auto_start_schedules,     \* RestartScheduler.auto_start_schedules
  schedules_file,           \* content of restart_schedules.json
  auto_start_file,          \* content of auto_start_schedules.json
  sched,                    \* position and locals of RestartScheduler._scheduler_loop
  config_calls,             \* number of configuration calls made so far
  ret,                      \* history: the last step of the scheduler or configuration call
  calc                      \* inputs and result of a next-time computation

monitor_vars == <<monitored_processes, prev_process_status, process_stopped_time,
                  process_stopped_alerted, alerts, alert_settings, processes_file, down,
                  process_history, prev_metrics>>
settings_vars == <<thresholds, history_length>>
sched_vars == <<schedules, auto_start_schedules, schedules_file, auto_start_file, sched>>
os_vars == <<os_procs, next_pid>>
time_vars == <<now, clock_steps>>
vars == <<now, clock_steps, os_procs, next_pid, monitored_processes, prev_process_status,
          process_stopped_time, process_stopped_alerted, alerts, alert_settings,
          processes_file, down, schedules, auto_start_schedules, schedules_file,
          auto_start_file, sched, config_calls, ret, calc, thresholds, history_length,
          process_history, prev_metrics>>

(***************************************************************************)
(* Bounds                                                                  *)
(***************************************************************************)
MaxClockSteps == 2
MaxPid == 2
MaxIoSteps == 1
MaxConfigCalls == 1

\* amounts by which the clock advances between two operations
TimeSteps == {1, SecondsPerMinute}

AlertsMaxLen == 100

\* a history_length the environment can set: only the last sample is kept
ShortHistoryLength == 1

\* settings.cpu_threshold, ram_threshold, disk_io_threshold, network_threshold
cpu_threshold == 80
ram_threshold == 80
disk_io_threshold == 100
network_threshold == 50

\* ProcessMonitor.__init__: self.thresholds (lines 195-200)
InitialThresholds ==
  [cpu |-> cpu_threshold, ram |-> ram_threshold, disk_io |-> disk_io_threshold,
   network |-> network_threshold]

\* ProcessMonitor.__init__: self.alert_settings (lines 211-219)
InitialAlertSettings ==
  [cpu_alert_enabled |-> TRUE,
   ram_alert_enabled |-> TRUE,
   disk_io_alert_enabled |-> TRUE,
   network_alert_enabled |-> TRUE,
   process_stopped_alert_enabled |-> TRUE,
   process_stopped_minutes |-> 0,
   process_stopped_seconds |-> 0]

(***************************************************************************)
(* OS process table                                                        *)
(***************************************************************************)

\* psutil.Process.is_running() of the tracked handle
is_running(procs, pid) == pid \in {p.pid : p \in procs}

\* FirstMatchIgnoreCase without the name comparison of line 272
FirstMatchAnyName(procs, process_name) ==
  LET m == procs
  IN IF m = {} THEN None
     ELSE <<CHOOSE p \in m : \A q \in m : p.pid <= q.pid>>

\* first process of psutil.process_iter() (ascending pid) whose name matches
\* ignoring case; None when there is none
FirstMatchIgnoreCase(procs, process_name) ==
  LET m == {p \in procs : Lower(p.name) = Lower(process_name)}
  IN IF m = {} THEN None
     ELSE <<CHOOSE p \in m : \A q \in m : p.pid <= q.pid>>

\* subprocess.Popen([program_path]) : a new OS process named after the executable
Spawn(procs, pid, exe_name) ==
  procs \cup {[pid |-> pid, name |-> exe_name, read_bytes |-> 0, write_bytes |-> 0]}

(***************************************************************************)
(* ProcessMonitor                                                          *)
(* The operators below take and return the record M of the monitor's       *)
(* fields together with the OS process table the monitor reads:            *)
(*   mp    monitored_processes      pps  prev_process_status               *)
(*   pst   process_stopped_time     psa  process_stopped_alerted           *)
(*   al    alerts                   file processes_file                    *)
(*   os    os_procs                 dn   down                              *)
(*   hist  process_history          pm   prev_metrics                      *)
(*   res   return value of the operator                                    *)
(***************************************************************************)
MonitorState ==
  [mp |-> monitored_processes, pps |-> prev_process_status,
   pst |-> process_stopped_time, psa |-> process_stopped_alerted,
   al |-> alerts, file |-> processes_file, os |-> os_procs, dn |-> down,
   hist |-> process_history, pm |-> prev_metrics, res |-> None]

\* DequeAppend that makes room by dropping the newest stored alert
DequeAppendEvictsNewest(q, x) ==
  IF Len(q) >= AlertsMaxLen THEN Append(SubSeq(q, 1, Len(q) - 1), x) ELSE Append(q, x)

\* deque(maxlen=100).append
DequeAppend(q, x) ==
  IF Len(q) >= AlertsMaxLen THEN Append(Tail(q), x) ELSE Append(q, x)

\* dict.get(k, default) on a function with an explicit domain
GetOr(f, k, default) == IF k \in DOMAIN f THEN f[k] ELSE default

\* del f[k]
Without(f, k) == [x \in (DOMAIN f) \ {k} |-> f[x]]

\* f[k] = v
With(f, k, v) == [x \in (DOMAIN f) \cup {k} |-> IF x = k THEN v ELSE f[x]]

\* ProcessMonitor._save_processes_list
SaveProcessesList(M) == [M EXCEPT !.file = DictKeys(M.mp)]

\* ProcessMonitor.add_process(process_name, save); res = found
add_process(M, process_name, save) ==
  LET hit == FirstMatchIgnoreCase(M.os, process_name)
  IN IF hit = None THEN [M EXCEPT !.res = FALSE]
     ELSE LET M1 == [M EXCEPT
                      !.mp = DictPut(M.mp, process_name,
                                     [pid |-> hit[1].pid]),
                      !.dn = IF DictHas(M.mp, process_name) THEN @
                             ELSE [@ EXCEPT ![process_name].stopped_alerts = 0],
                      !.res = TRUE]
          IN IF save THEN SaveProcessesList(M1) ELSE M1

\* remove_process without the pid comparison of lines 298-300
RemoveIgnoresPid(M, process_name, pid) ==
  IF ~DictHas(M.mp, process_name) THEN [M EXCEPT !.res = FALSE]
  ELSE LET stored_pid == DictGet(M.mp, process_name).pid
       IN SaveProcessesList(
            [M EXCEPT !.mp = DictDel(M.mp, process_name),
                      !.pm = IF stored_pid \in DOMAIN M.pm
                             THEN Without(M.pm, stored_pid) ELSE @,
                      !.hist = IF process_name \in DOMAIN M.hist
                               THEN Without(M.hist, process_name) ELSE @,
                      !.res = TRUE])

\* ProcessMonitor.remove_process(process_name, pid); pid = None when not given
remove_process(M, process_name, pid) ==
  IF ~DictHas(M.mp, process_name) THEN [M EXCEPT !.res = FALSE]
  ELSE LET stored_pid == DictGet(M.mp, process_name).pid
       IN IF pid # None /\ stored_pid # pid[1] THEN [M EXCEPT !.res = FALSE]
          ELSE SaveProcessesList(
                 [M EXCEPT !.mp = DictDel(M.mp, process_name),
                           !.pm = IF stored_pid \in DOMAIN M.pm
                                  THEN Without(M.pm, stored_pid) ELSE @,
                           !.hist = IF process_name \in DOMAIN M.hist
                                    THEN Without(M.hist, process_name) ELSE @,
                           !.res = TRUE])

\* _create_process_stopped_alert without the already-alerted test of line 487
StoppedAlertNoFlag(M, process_name, t) ==
  IF ~alert_settings.process_stopped_alert_enabled THEN M
  ELSE IF process_name \notin DOMAIN M.pst
       THEN [M EXCEPT !.pst = With(M.pst, process_name, t)]
  ELSE LET wait_duration == alert_settings.process_stopped_minutes * SecondsPerMinute
                             + alert_settings.process_stopped_seconds
           stopped_duration == t - M.pst[process_name]
       IN IF stopped_duration < wait_duration THEN M
          ELSE [M EXCEPT
             !.al = DequeAppend(M.al, [alert_type |-> "PROCESS_STOPPED",
                                       process_name |-> process_name,
                                       timestamp |-> t,
                                       value |-> stopped_duration,
                                       threshold |-> wait_duration]),
             !.psa = With(M.psa, process_name, TRUE),
             !.dn = [@ EXCEPT ![process_name].stopped_alerts = @ + 1]]

\* ProcessMonitor._create_process_stopped_alert(process_name, pid) at time t
_create_process_stopped_alert(M, process_name, t) ==
  IF ~alert_settings.process_stopped_alert_enabled THEN M
  ELSE IF GetOr(M.psa, process_name, FALSE) THEN M
  ELSE IF process_name \notin DOMAIN M.pst
       THEN [M EXCEPT !.pst = With(M.pst, process_name, t)]
  ELSE LET wait_duration == alert_settings.process_stopped_minutes * SecondsPerMinute
                             + alert_settings.process_stopped_seconds
           stopped_duration == t - M.pst[process_name]
       IN IF stopped_duration < wait_duration THEN M
          ELSE [M EXCEPT
             !.al = DequeAppend(M.al, [alert_type |-> "PROCESS_STOPPED",
                                       process_name |-> process_name,
                                       timestamp |-> t,
                                       value |-> stopped_duration,
                                       threshold |-> wait_duration]),
             !.psa = With(M.psa, process_name, TRUE),
             !.dn = [@ EXCEPT ![process_name].stopped_alerts = @ + 1]]

\* _create_process_started_alert without the deletions of lines 546-549
StartedAlertKeepsState(M, process_name, t) ==
  [M EXCEPT
     !.al = DequeAppend(M.al, [alert_type |-> "PROCESS_STARTED",
                               process_name |-> process_name,
                               timestamp |-> t,
                               value |-> 0,
                               threshold |-> 0])]

\* ProcessMonitor._create_process_started_alert(process_name, pid) at time t
_create_process_started_alert(M, process_name, t) ==
  [M EXCEPT
     !.pst = IF process_name \in DOMAIN M.pst THEN Without(M.pst, process_name) ELSE @,
     !.psa = IF process_name \in DOMAIN M.psa THEN Without(M.psa, process_name) ELSE @,
     !.al = DequeAppend(M.al, [alert_type |-> "PROCESS_STARTED",
                               process_name |-> process_name,
                               timestamp |-> t,
                               value |-> 0,
                               threshold |-> 0])]

\* What sampling a live process can do (process_monitor.py lines 359-451):
\*   "io_denied"  every psutil call returns but proc.io_counters(), which raises
\*                the psutil.AccessDenied that lines 385-386 catch; CPU, memory
\*                and network are all 0
\*   "gone"       the process exits while it is sampled: psutil.NoSuchProcess
\*   "denied"     psutil.AccessDenied
SampleOutcomes == {"io_denied", "gone", "denied"}

\* the outcomes of a sampling in which no call fails but, for "io_denied",
\* proc.io_counters(); they are named after the CPU, memory and network metrics
\* the sampling yields, "ok" for all 0
MetricOutcomes ==
  {"ok", "at_threshold", "cpu_high", "ram_high", "net_high", "all_high", "io_denied"}

\* the CPU, memory and network metrics of each outcome; network is high only
\* as a sum
Reading(outcome) ==
  \* the metrics lines 359-364 and 388-408 compute (after rounding), as integers
  LET Metrics(cpu, ram, net_sent, net_recv) ==
        [cpu_percent |-> cpu, memory_percent |-> ram,
         net_sent_mb |-> net_sent, net_recv_mb |-> net_recv]
  IN
  CASE outcome = "at_threshold" -> Metrics(80, 80, 25, 25)
    [] outcome = "cpu_high"     -> Metrics(81, 0, 0, 0)
    [] outcome = "ram_high"     -> Metrics(0, 81, 0, 0)
    [] outcome = "net_high"     -> Metrics(0, 0, 25, 26)
    [] outcome = "all_high"     -> Metrics(81, 81, 25, 26)
    [] OTHER                    -> Metrics(0, 0, 0, 0)

BytesPerMB == 1024 * 1024

\* Measure that keeps the counters and the time of the first sample of a pid
MeasureKeepsFirstCounters(M, pid, outcome, t) ==
  LET io_counters == CHOOSE p \in M.os : p.pid = pid
      stored == pid \in DOMAIN M.pm
      prev_io == IF stored THEN M.pm[pid].io_counters ELSE io_counters
      time_delta == IF stored THEN t - M.pm[pid].time ELSE 0
      Rate(current, previous) ==
        IF stored /\ time_delta > 0
        THEN ((current - previous) \div BytesPerMB) \div time_delta
        ELSE 0
      m == Reading(outcome)
  IN IF outcome = "io_denied"
     THEN [metrics |-> [cpu_percent |-> m.cpu_percent, memory_percent |-> m.memory_percent,
                        disk_read_mb |-> 0, disk_write_mb |-> 0,
                        net_sent_mb |-> m.net_sent_mb, net_recv_mb |-> m.net_recv_mb],
           pm |-> M.pm]
     ELSE [metrics |->
             [cpu_percent |-> m.cpu_percent, memory_percent |-> m.memory_percent,
              disk_read_mb |-> Rate(io_counters.read_bytes, prev_io.read_bytes),
              disk_write_mb |-> Rate(io_counters.write_bytes, prev_io.write_bytes),
              net_sent_mb |-> m.net_sent_mb, net_recv_mb |-> m.net_recv_mb],
           pm |-> IF stored THEN M.pm
                  ELSE With(M.pm, pid,
                            [io_counters |-> [read_bytes |-> io_counters.read_bytes,
                                              write_bytes |-> io_counters.write_bytes],
                             time |-> t])]

\* get_process_info, lines 358-408: the metrics of a sample of the live process
\* pid at time t and prev_metrics after it. The disk rates are the growth of
\* the counters proc.io_counters() returns since the sample stored in
\* prev_metrics[pid], in MB per second; the counters of the model grow by
\* amounts for which the division is exact, so that round(_, 2) keeps the value
Measure(M, pid, outcome, t) ==
  LET io_counters == CHOOSE p \in M.os : p.pid = pid
      stored == pid \in DOMAIN M.pm
      prev_io == IF stored THEN M.pm[pid].io_counters ELSE io_counters
      time_delta == IF stored THEN t - M.pm[pid].time ELSE 0
      Rate(current, previous) ==
        IF stored /\ time_delta > 0
        THEN ((current - previous) \div BytesPerMB) \div time_delta
        ELSE 0
      m == Reading(outcome)
  IN IF outcome = "io_denied"
     THEN [metrics |-> [cpu_percent |-> m.cpu_percent, memory_percent |-> m.memory_percent,
                        disk_read_mb |-> 0, disk_write_mb |-> 0,
                        net_sent_mb |-> m.net_sent_mb, net_recv_mb |-> m.net_recv_mb],
           pm |-> M.pm]
     ELSE [metrics |->
             [cpu_percent |-> m.cpu_percent, memory_percent |-> m.memory_percent,
              disk_read_mb |-> Rate(io_counters.read_bytes, prev_io.read_bytes),
              disk_write_mb |-> Rate(io_counters.write_bytes, prev_io.write_bytes),
              net_sent_mb |-> m.net_sent_mb, net_recv_mb |-> m.net_recv_mb],
           pm |-> With(M.pm, pid,
                       [io_counters |-> [read_bytes |-> io_counters.read_bytes,
                                         write_bytes |-> io_counters.write_bytes],
                        time |-> t])]

\* one Alert of _check_thresholds
ThresholdAlert(process_name, type, value, threshold, t) ==
  [alert_type |-> type, process_name |-> process_name, timestamp |-> t,
   value |-> value, threshold |-> threshold]

\* Exceeds that also holds at the threshold
ExceedsOrEquals(value, threshold) == value >= threshold

\* the comparison of lines 592, 610, 627, 645
Exceeds(value, threshold) == value > threshold

\* ProcessMonitor._check_thresholds(process_info) at time t
_check_thresholds(M, process_name, m, t) ==
  LET total_disk_io == m.disk_read_mb + m.disk_write_mb
      total_network == m.net_sent_mb + m.net_recv_mb
      A1 == IF alert_settings.cpu_alert_enabled /\ Exceeds(m.cpu_percent, thresholds.cpu)
            THEN DequeAppend(M.al, ThresholdAlert(process_name, "CPU", m.cpu_percent,
                                                  thresholds.cpu, t))
            ELSE M.al
      A2 == IF alert_settings.ram_alert_enabled /\ Exceeds(m.memory_percent, thresholds.ram)
            THEN DequeAppend(A1, ThresholdAlert(process_name, "RAM", m.memory_percent,
                                                thresholds.ram, t))
            ELSE A1
      A3 == IF alert_settings.disk_io_alert_enabled /\ Exceeds(total_disk_io, thresholds.disk_io)
            THEN DequeAppend(A2, ThresholdAlert(process_name, "Disk I/O", total_disk_io,
                                                thresholds.disk_io, t))
            ELSE A2
      A4 == IF alert_settings.network_alert_enabled /\ Exceeds(total_network, thresholds.network)
            THEN DequeAppend(A3, ThresholdAlert(process_name, "Network", total_network,
                                                thresholds.network, t))
            ELSE A3
  IN [M EXCEPT !.al = A4]

\* HistoryAppend that makes room by dropping the newest stored sample
HistoryAppendEvictsNewest(q, x) ==
  IF history_length = 0 THEN << >>
  ELSE IF Len(q) >= history_length THEN Append(SubSeq(q, 1, Len(q) - 1), x)
  ELSE Append(q, x)

\* deque(maxlen=history_length).append
HistoryAppend(q, x) ==
  IF history_length = 0 THEN << >>
  ELSE IF Len(q) >= history_length THEN Append(Tail(q), x)
  ELSE Append(q, x)

\* the part of get_process_info after the re-acquisition block (lines 358-478)
SampleProcess(M, process_name, outcome, t) ==
  IF outcome = "gone"
  THEN [M EXCEPT !.os = {p \in M.os : p.pid # DictGet(M.mp, process_name).pid},
                 !.res = None]
  ELSE IF outcome = "denied" THEN [M EXCEPT !.res = None]
  ELSE LET sample == Measure(M, DictGet(M.mp, process_name).pid, outcome, t)
           M1 == [M EXCEPT !.pm = sample.pm,
                           !.pps = With(M.pps, process_name, "running"),
                           !.dn = [@ EXCEPT ![process_name] =
                                      [first_stopped |-> None, stopped_alerts |-> 0]]]
           M2 == _check_thresholds(M1, process_name, sample.metrics, t)
           \* lines 459-472: the sample is appended to the history of the name
           M3 == [M2 EXCEPT !.hist =
                    With(M2.hist, process_name,
                         HistoryAppend(GetOr(M2.hist, process_name, << >>),
                                       [timestamp |-> t, metrics |-> sample.metrics]))]
       IN [M3 EXCEPT !.res = <<"running">>]

\* get_process_info that forgets a name whose process cannot be found again
GetProcessInfoDropsStopped(M, process_name, outcome, t) ==
  IF ~DictHas(M.mp, process_name) THEN [M EXCEPT !.res = None]
  ELSE IF ~is_running(M.os, DictGet(M.mp, process_name).pid)
  THEN LET A == add_process(M, process_name, TRUE)
       IN IF ~A.res
          THEN [A EXCEPT !.mp = DictDel(A.mp, process_name), !.res = None]
          ELSE LET M1 == IF GetOr(A.pps, process_name, "") = "stopped"
                         THEN _create_process_started_alert(A, process_name, t)
                         ELSE A
                   M2 == [M1 EXCEPT !.dn = [@ EXCEPT ![process_name].stopped_alerts = 0]]
               IN SampleProcess(M2, process_name, outcome, t)
  ELSE SampleProcess(M, process_name, outcome, t)

\* ProcessMonitor.get_process_info(process_name) at time t;
\* res = None, <<"stopped">> or <<"running">> (a ProcessInfo of a live process)
get_process_info(M, process_name, outcome, t) ==
  IF ~DictHas(M.mp, process_name) THEN [M EXCEPT !.res = None]
  ELSE IF ~is_running(M.os, DictGet(M.mp, process_name).pid)
  THEN LET A == add_process(M, process_name, TRUE)
       IN IF ~A.res
          THEN LET M1 == [A EXCEPT
                            !.pps = With(A.pps, process_name, "stopped"),
                            !.dn = [@ EXCEPT ![process_name].first_stopped =
                                       IF @ = None THEN <<t>> ELSE @]]
                   M2 == _create_process_stopped_alert(M1, process_name, t)
               IN [M2 EXCEPT !.res = <<"stopped">>]
          ELSE LET M1 == IF GetOr(A.pps, process_name, "") = "stopped"
                         THEN _create_process_started_alert(A, process_name, t)
                         ELSE A
                   M2 == [M1 EXCEPT !.dn = [@ EXCEPT ![process_name].stopped_alerts = 0]]
               IN SampleProcess(M2, process_name, outcome, t)
  ELSE SampleProcess(M, process_name, outcome, t)

RECURSIVE GetAllFrom(_, _, _, _, _)
\* GetAllFrom that ends the loop at the first process psutil fails on
GetAllEndsAtFailure(M, keys, outcomes, t, acc) ==
  IF keys = << >> THEN [M EXCEPT !.res = acc]
  ELSE LET M1 == get_process_info(M, Head(keys), outcomes[Head(keys)], t)
       IN IF M1.res = None THEN [M1 EXCEPT !.res = acc]
          ELSE GetAllFrom(M1, Tail(keys), outcomes, t,
                          Append(acc, <<Head(keys), M1.res[1]>>))

\* ProcessMonitor.get_all_processes(): get_process_info over
\* list(monitored_processes.keys()); res = the ProcessInfo list as <<name, status>> pairs
GetAllFrom(M, keys, outcomes, t, acc) ==
  IF keys = << >> THEN [M EXCEPT !.res = acc]
  ELSE LET M1 == get_process_info(M, Head(keys), outcomes[Head(keys)], t)
       IN GetAllFrom(M1, Tail(keys), outcomes, t,
                     IF M1.res = None THEN acc
                     ELSE Append(acc, <<Head(keys), M1.res[1]>>))

(***************************************************************************)
(* Files and program paths                                                 *)
(***************************************************************************)
HOSTNAME == <<"h">>
DIR == "/opt/"

\* the executable of process name n
ExePath(n) == <<DIR>> \o n

\* name of the OS process that running the executable creates
ExeName(path) == Tail(path)

\* str.strip(ch)
RECURSIVE StripLeft(_, _)
StripLeft(s, ch) ==
  IF s # << >> /\ Head(s) = ch THEN StripLeft(Tail(s), ch) ELSE s

RECURSIVE StripRight(_, _)
StripRight(s, ch) ==
  IF s # << >> /\ s[Len(s)] = ch THEN StripRight(SubSeq(s, 1, Len(s) - 1), ch) ELSE s

\* program_path.strip('"').strip("'") when program_path is truthy
StripQuotes(program_path) ==
  LET Strip(s, ch) == StripRight(StripLeft(s, ch), ch)
  IN
  IF program_path = None THEN None ELSE Strip(Strip(program_path, "\""), "'")

\* the spawn test without its os.path.exists half
CanSpawnAnyGivenPath(program_path) == program_path # None

\* program_path and os.path.exists(program_path)
CanSpawn(program_path) ==
  \* os.path.exists(path)
  LET PathExists(path) == \E n \in Names : path = ExePath(n)
  IN
  program_path # None /\ PathExists(program_path)

(***************************************************************************)
(* RestartScheduler: configuration                                         *)
(***************************************************************************)
ScheduleKey(process_name, hostname) == process_name \o <<":">> \o hostname

\* the removal test without its type = 'none' half
ScheduleIsOffIgnoresType(schedule) == ~schedule.enabled

\* update_schedule: the branch taken
ScheduleIsOff(schedule) == ~schedule.enabled \/ schedule.type = "none"

\* the dict update_schedule stores
RestartEntry(process_name, hostname, schedule, program_path, t) ==
  [process_name |-> process_name,
   hostname |-> hostname,
   program_path |-> program_path,
   type |-> schedule.type,
   intervalMinutes |-> schedule.intervalMinutes,
   intervalSeconds |-> schedule.intervalSeconds,
   dailyTime |-> schedule.dailyTime,
   enabled |-> schedule.enabled,
   last_restart |-> None,
   next_restart |-> _calculate_next_restart(schedule, t)]

\* the dict update_auto_start_schedule stores
AutoStartEntry(process_name, hostname, schedule, program_path, t) ==
  [process_name |-> process_name,
   hostname |-> hostname,
   program_path |-> program_path,
   type |-> schedule.type,
   intervalMinutes |-> schedule.intervalMinutes,
   intervalSeconds |-> schedule.intervalSeconds,
   dailyTime |-> schedule.dailyTime,
   enabled |-> schedule.enabled,
   last_check |-> None,
   next_check |-> _calculate_next_check(schedule, t)]

\* list(table.items()): each item refers to the dict object the table holds;
\* live = the table still holds that object under that key
Items(table) ==
  [i \in DOMAIN table |-> [key |-> table[i].key, value |-> table[i].value, live |-> TRUE]]

\* a configuration call rebinds or deletes table[key]: the object a running
\* tick holds for that key is no longer the table's
Unlink(snap, key) ==
  [i \in DOMAIN snap |-> IF snap[i].key = key THEN [snap[i] EXCEPT !.live = FALSE]
                         ELSE snap[i]]

\* the event loop can run another callback only while the task is suspended
AtAwait ==
  \* positions at which the task is suspended in an await (or has not begun)
  LET AwaitPcs == {"not_started", "sleep", "restart_kill_wait", "restart_spawn_wait",
                   "auto_spawn_wait"}
  IN
  sched.pc \in AwaitPcs

(***************************************************************************)
(* Inputs                                                                  *)
(***************************************************************************)
Sched(type, minutes, seconds, daily, enabled) ==
  [type |-> type, intervalMinutes |-> minutes, intervalSeconds |-> seconds,
   dailyTime |-> daily, enabled |-> enabled]

\* RestartScheduleInfo.model_dump() values a configuration call passes
ScheduleInputs ==
  { Sched("interval", <<0>>, <<1>>, None, FALSE),
    Sched("none", None, None, None, TRUE),
    Sched("interval", None, <<1>>, None, TRUE),
    Sched("interval", <<1>>, <<0>>, None, TRUE),
    Sched("interval", <<0>>, <<0>>, None, TRUE),
    Sched("daily", None, None, <<"0", "0", ":", "0", "1">>, TRUE) }

ProgramPaths(n) ==
  LET MISSING_PATH == <<DIR, "x">>
  IN
  LET Quoted(path) == <<"\"">> \o path \o <<"\"">>
  IN
  {None, MISSING_PATH, Quoted(ExePath(n))}

\* active thread counts parse_system_log can derive from the log
ThreadCounts == {0, 1}

Ret(op, name, outcome, threads, val) ==
  [op |-> op, name |-> name, outcome |-> outcome, threads |-> threads, val |-> val]

NoLocals == [process_name |-> None, program_path |-> None, killed |-> FALSE]

(***************************************************************************)
(* Initial state: both singletons constructed, no saved files, the         *)
(* scheduler task not started                                              *)
(***************************************************************************)
Init ==
  /\ now = 0
  /\ clock_steps = 0
  /\ os_procs = {}
  /\ next_pid = 1
  /\ monitored_processes = << >>
  /\ prev_process_status = << >>
  /\ process_stopped_time = << >>
  /\ process_stopped_alerted = << >>
  /\ alerts = << >>
  /\ alert_settings = InitialAlertSettings
  /\ thresholds = InitialThresholds
  /\ history_length = ShortHistoryLength
  /\ process_history = << >>
  /\ prev_metrics = << >>
  /\ processes_file = << >>
  /\ down = [n \in Names |-> [first_stopped |-> None, stopped_alerts |-> 0]]
  /\ schedules = << >>
  /\ auto_start_schedules = << >>
  /\ schedules_file = << >>
  /\ auto_start_file = << >>
  /\ sched = [pc |-> "not_started", tick_now |-> 0, snap |-> << >>, idx |-> 1,
              cur |-> NoLocals]
  /\ config_calls = 0
  /\ ret = Ret("init", None, "", 0, None)
  /\ calc = None

(***************************************************************************)
(* Environment: the clock and the OS                                       *)
(***************************************************************************)
Advance(d) ==
  /\ clock_steps < MaxClockSteps
  /\ now' = now + d
  /\ clock_steps' = clock_steps + 1
  /\ UNCHANGED <<os_vars, monitor_vars, sched_vars, config_calls, ret, calc, settings_vars>>

\* somebody other than the monitor starts a process
OSStart(n) ==
  /\ next_pid <= MaxPid
  /\ os_procs' = Spawn(os_procs, next_pid, n)
  /\ next_pid' = next_pid + 1
  /\ UNCHANGED <<time_vars, monitor_vars, sched_vars, config_calls, ret, calc, settings_vars>>

\* what a process reads and writes between two samples: nothing is written,
\* or more is written than is read
IoSteps ==
  { [read_bytes |-> 606 * BytesPerMB, write_bytes |-> 0],
    [read_bytes |-> 6 * BytesPerMB, write_bytes |-> 600 * BytesPerMB] }

\* a running process reads from and writes to the disk: its counters grow
OSDiskIo(p, io) ==
  /\ p \in os_procs
  /\ p.read_bytes + p.write_bytes + io.read_bytes + io.write_bytes
       <= MaxIoSteps * 606 * BytesPerMB
  /\ os_procs' = (os_procs \ {p})
                   \cup {[p EXCEPT !.read_bytes = @ + io.read_bytes,
                                   !.write_bytes = @ + io.write_bytes]}
  /\ UNCHANGED <<time_vars, next_pid, monitor_vars, sched_vars, config_calls, ret, calc, settings_vars>>

\* a process exits or is killed by somebody other than the monitor
OSExit(p) ==
  /\ p \in os_procs
  /\ os_procs' = os_procs \ {p}
  /\ UNCHANGED <<time_vars, next_pid, monitor_vars, sched_vars, config_calls, ret, calc, settings_vars>>

(***************************************************************************)
(* ProcessMonitor operations, as the API layer and broadcast_updates call  *)
(* them on the event loop                                                  *)
(***************************************************************************)
SetMonitor(M) ==
  /\ monitored_processes' = M.mp
  /\ prev_process_status' = M.pps
  /\ process_stopped_time' = M.pst
  /\ process_stopped_alerted' = M.psa
  /\ alerts' = M.al
  /\ processes_file' = M.file
  /\ os_procs' = M.os
  /\ down' = M.dn
  /\ process_history' = M.hist
  /\ prev_metrics' = M.pm

\* broadcast_updates: monitor.get_all_processes()
GetAllProcesses(outcomes) ==
  /\ AtAwait
  /\ \A n \in Names : ~DictHas(monitored_processes, n) => outcomes[n] = "io_denied"
  /\ LET M == GetAllFrom(MonitorState, DictKeys(monitored_processes), outcomes, now, << >>)
     IN SetMonitor(M)
  /\ UNCHANGED <<time_vars, next_pid, alert_settings, sched_vars, config_calls, ret, calc, settings_vars>>

\* POST /api/processes: monitor.add_process(name)
ApiAddProcess(n) ==
  /\ AtAwait
  /\ SetMonitor(add_process(MonitorState, n, TRUE))
  /\ UNCHANGED <<time_vars, next_pid, alert_settings, sched_vars, config_calls, ret, calc, settings_vars>>

\* DELETE /api/processes/{name}: monitor.remove_process(name, pid)
ApiRemoveProcess(n, pid) ==
  /\ AtAwait
  /\ SetMonitor(remove_process(MonitorState, n, pid))
  /\ UNCHANGED <<time_vars, next_pid, alert_settings, sched_vars, config_calls, ret, calc, settings_vars>>

\* settings_dict[key] if the key is in settings_dict, else the stored value
IfIn(settings_dict, key, stored) ==
  IF key \in DOMAIN settings_dict THEN settings_dict[key] ELSE stored

\* update_alert_settings that reads the RAM flag from the CPU key
UpdateAlertSettingsRamFromCpu(settings, settings_dict) ==
  [cpu_alert_enabled |->
     IfIn(settings_dict, "cpuAlertEnabled", settings.cpu_alert_enabled),
   ram_alert_enabled |->
     IfIn(settings_dict, "cpuAlertEnabled", settings.ram_alert_enabled),
   disk_io_alert_enabled |->
     IfIn(settings_dict, "diskIoAlertEnabled", settings.disk_io_alert_enabled),
   network_alert_enabled |->
     IfIn(settings_dict, "networkAlertEnabled", settings.network_alert_enabled),
   process_stopped_alert_enabled |->
     IfIn(settings_dict, "processStoppedAlertEnabled",
          settings.process_stopped_alert_enabled),
   process_stopped_minutes |->
     IfIn(settings_dict, "processStoppedMinutes", settings.process_stopped_minutes),
   process_stopped_seconds |->
     IfIn(settings_dict, "processStoppedSeconds", settings.process_stopped_seconds)]

\* ProcessMonitor.update_alert_settings(settings_dict): the new alert_settings
update_alert_settings(settings, settings_dict) ==
  [cpu_alert_enabled |->
     IfIn(settings_dict, "cpuAlertEnabled", settings.cpu_alert_enabled),
   ram_alert_enabled |->
     IfIn(settings_dict, "ramAlertEnabled", settings.ram_alert_enabled),
   disk_io_alert_enabled |->
     IfIn(settings_dict, "diskIoAlertEnabled", settings.disk_io_alert_enabled),
   network_alert_enabled |->
     IfIn(settings_dict, "networkAlertEnabled", settings.network_alert_enabled),
   process_stopped_alert_enabled |->
     IfIn(settings_dict, "processStoppedAlertEnabled",
          settings.process_stopped_alert_enabled),
   process_stopped_minutes |->
     IfIn(settings_dict, "processStoppedMinutes", settings.process_stopped_minutes),
   process_stopped_seconds |->
     IfIn(settings_dict, "processStoppedSeconds", settings.process_stopped_seconds)]

\* PUT /api/alert-settings and startup: monitor.update_alert_settings(settings_dict)
UpdateAlertSettings(settings_dict) ==
  /\ AtAwait
  /\ config_calls < MaxConfigCalls
  /\ config_calls' = config_calls + 1
  /\ alert_settings' = update_alert_settings(alert_settings, settings_dict)
  /\ UNCHANGED <<time_vars, os_vars, monitored_processes, prev_process_status,
                 process_stopped_time, process_stopped_alerted, alerts, processes_file,
                 down, process_history, prev_metrics, sched_vars, ret, calc, settings_vars>>

(***************************************************************************)
(* RestartScheduler: configuration calls (PUT /api/processes/{name}/metadata) *)
(***************************************************************************)
update_schedule(process_name, hostname, schedule, program_path) ==
  \* positions of the scheduler task
  LET RestartPcs == {"restart_scan", "restart_kill_wait", "restart_spawn", "restart_spawn_wait"}
  IN
  /\ AtAwait
  /\ config_calls < MaxConfigCalls
  /\ config_calls' = config_calls + 1
  /\ LET key == ScheduleKey(process_name, hostname)
         table == IF ScheduleIsOff(schedule)
                  THEN DictDel(schedules, key)
                  ELSE DictPut(schedules, key,
                               RestartEntry(process_name, hostname, schedule,
                                            program_path, now))
     IN /\ schedules' = table
        /\ schedules_file' = table
        /\ sched' = IF sched.pc \in RestartPcs
                    THEN [sched EXCEPT !.snap = Unlink(sched.snap, key)]
                    ELSE sched
        /\ ret' = Ret("update_schedule", key, "", 0, None)
  /\ UNCHANGED <<time_vars, os_vars, monitor_vars, auto_start_schedules,
                 auto_start_file, calc, settings_vars>>

update_auto_start_schedule(process_name, hostname, schedule, program_path) ==
  LET AutoPcs == {"auto_scan", "auto_spawn_wait"}
  IN
  /\ AtAwait
  /\ config_calls < MaxConfigCalls
  /\ config_calls' = config_calls + 1
  /\ LET key == ScheduleKey(process_name, hostname)
         table == IF ScheduleIsOff(schedule)
                  THEN DictDel(auto_start_schedules, key)
                  ELSE DictPut(auto_start_schedules, key,
                               AutoStartEntry(process_name, hostname, schedule,
                                              program_path, now))
     IN /\ auto_start_schedules' = table
        /\ auto_start_file' = table
        /\ sched' = IF sched.pc \in AutoPcs
                    THEN [sched EXCEPT !.snap = Unlink(sched.snap, key)]
                    ELSE sched
        /\ ret' = Ret("update_auto_start_schedule", key, "", 0, None)
  /\ UNCHANGED <<time_vars, os_vars, monitor_vars, schedules, schedules_file, calc, settings_vars>>

(***************************************************************************)
(* RestartScheduler: the background task                                   *)
(***************************************************************************)
\* RestartScheduler.start(): the task is created and will run _scheduler_loop
SchedulerStart ==
  /\ sched.pc = "not_started"
  /\ sched' = [sched EXCEPT !.pc = "sleep"]
  /\ ret' = Ret("start", None, "", 0, None)
  /\ UNCHANGED <<time_vars, os_vars, monitor_vars, schedules, auto_start_schedules,
                 schedules_file, auto_start_file, config_calls, calc, settings_vars>>

\* _scheduler_loop resumes and enters _check_schedules (lines 236-251)
BeginCheckSchedules ==
  /\ sched.pc = "sleep"
  /\ sched' = [pc |-> "restart_scan", tick_now |-> now, snap |-> Items(schedules),
               idx |-> 1, cur |-> NoLocals]
  /\ ret' = Ret("_check_schedules", None, "", 0, None)
  /\ UNCHANGED <<time_vars, os_vars, monitor_vars, schedules, auto_start_schedules,
                 schedules_file, auto_start_file, config_calls, calc, settings_vars>>

\* a busy test that answers False whatever the log holds
AnyThreadWorkingReportsIdle(active_threads) == "False"

\* bms_monitor.is_any_thread_working() (restart_scheduler.py line 271):
\* BMSLogMonitor defines no attribute of that name, so the call raises
\* AttributeError whatever the log holds
is_any_thread_working(active_threads) == "AttributeError"

\* the entry the loop of _check_schedules / _check_auto_start_schedules is at
CurItem == sched.snap[sched.idx]

\* lines 252-261: the entry is enabled, has a next time and that time has come
RestartIsDue(e, t) ==
  /\ e.enabled
  /\ e.next_restart # None
  /\ t >= fromisoformat(e.next_restart)

\* one iteration of the for loop of _check_schedules up to its first await
\* (lines 251-277 and 394-414); threads = what the log shows at this moment
CheckSchedule(threads) ==
  LET Victims(procs, process_name) == {p \in procs : p.name = process_name}
  IN
  /\ sched.pc = "restart_scan"
  /\ sched.idx <= Len(sched.snap)
  /\ LET e == CurItem.value
         busy == IF is_bms_process(e.process_name)
                 THEN is_any_thread_working(threads) ELSE "False"
     IN IF ~RestartIsDue(e, sched.tick_now)
        THEN /\ sched' = [sched EXCEPT !.idx = @ + 1]
             /\ ret' = Ret("check_schedule", CurItem.key, "not_due", threads, None)
             /\ UNCHANGED os_procs
        ELSE IF busy = "AttributeError"
        THEN /\ sched' = [sched EXCEPT !.idx = @ + 1]
             /\ ret' = Ret("check_schedule", CurItem.key, "error", threads, None)
             /\ UNCHANGED os_procs
        ELSE IF busy = "True"
        THEN /\ sched' = [sched EXCEPT !.idx = @ + 1]
             /\ ret' = Ret("check_schedule", CurItem.key, "postponed", threads, None)
             /\ UNCHANGED os_procs
        ELSE LET victims == Victims(os_procs, e.process_name)
                 killed == victims # {}
             IN /\ os_procs' = os_procs \ victims
                /\ sched' = [sched EXCEPT
                               !.pc = IF killed THEN "restart_kill_wait"
                                      ELSE "restart_spawn",
                               !.cur = [process_name |-> e.process_name,
                                        program_path |-> StripQuotes(e.program_path),
                                        killed |-> killed]]
                /\ ret' = Ret("check_schedule", CurItem.key, "restart", threads,
                              <<killed>>)
  /\ UNCHANGED <<time_vars, next_pid, monitor_vars, schedules, auto_start_schedules,
                 schedules_file, auto_start_file, config_calls, calc, settings_vars>>

\* await asyncio.sleep(2) returns (line 414)
KillWaitDone ==
  /\ sched.pc = "restart_kill_wait"
  /\ sched' = [sched EXCEPT !.pc = "restart_spawn"]
  /\ ret' = Ret("sleep", None, "", 0, None)
  /\ UNCHANGED <<time_vars, os_vars, monitor_vars, schedules, auto_start_schedules,
                 schedules_file, auto_start_file, config_calls, calc, settings_vars>>

\* the entry updated only when _restart_process returned True
RestartAdvanceOnSuccessOnly(item, success, t) ==
  IF success
  THEN [item EXCEPT !.value.last_restart = isoformat(t),
                    !.value.next_restart = _calculate_next_restart(item.value, t)]
  ELSE item

\* lines 279-281: the entry the loop holds is updated
RestartAdvance(item, success, t) ==
  [item EXCEPT !.value.last_restart = isoformat(t),
               !.value.next_restart = _calculate_next_restart(item.value, t)]

\* FinishRestart that stores the entry of the loop under its key in the table
FinishRestartWritesTable(success) ==
  LET item == RestartAdvance(CurItem, success, sched.tick_now)
      table == DictPut(schedules, item.key, item.value)
  IN /\ schedules' = table
     /\ schedules_file' = table
     /\ sched' = [sched EXCEPT !.pc = "restart_scan",
                               !.snap[sched.idx] = item,
                               !.idx = @ + 1,
                               !.cur = NoLocals]
     /\ ret' = Ret("restart_done", item.key, "", 0, <<success>>)

\* lines 279-288: the dict the loop holds is updated and the table is saved;
\* the table holds that dict only if no configuration call rebound the key
FinishRestart(success) ==
  LET item == RestartAdvance(CurItem, success, sched.tick_now)
      table == IF item.live THEN DictPut(schedules, item.key, item.value)
               ELSE schedules
  IN /\ schedules' = table
     /\ schedules_file' = table
     /\ sched' = [sched EXCEPT !.pc = "restart_scan",
                               !.snap[sched.idx] = item,
                               !.idx = @ + 1,
                               !.cur = NoLocals]
     /\ ret' = Ret("restart_done", item.key, "", 0, <<success>>)

\* _restart_process from line 417 to its second await, or to its return
\* when nothing can be spawned
RestartSpawn ==
  /\ sched.pc = "restart_spawn"
  /\ IF CanSpawn(sched.cur.program_path)
     THEN /\ next_pid <= MaxPid
          /\ os_procs' = Spawn(os_procs, next_pid, ExeName(sched.cur.program_path))
          /\ next_pid' = next_pid + 1
          /\ sched' = [sched EXCEPT !.pc = "restart_spawn_wait"]
          /\ ret' = Ret("spawn", sched.cur.process_name, "", 0, <<next_pid>>)
          /\ UNCHANGED <<schedules, schedules_file>>
     ELSE /\ FinishRestart(sched.cur.killed)
          /\ UNCHANGED os_vars
  /\ UNCHANGED <<time_vars, monitor_vars, auto_start_schedules, auto_start_file,
                 config_calls, calc, settings_vars>>

\* await asyncio.sleep(1) returns; lines 435-442 and 279-288
RestartRegister ==
  /\ sched.pc = "restart_spawn_wait"
  /\ SetMonitor(add_process(MonitorState, sched.cur.process_name, TRUE))
  /\ FinishRestart(TRUE)
  /\ UNCHANGED <<time_vars, next_pid, alert_settings, auto_start_schedules,
                 auto_start_file, config_calls, calc, settings_vars>>

\* the for loop of _check_schedules is exhausted; _scheduler_loop goes on
\* with _check_auto_start_schedules (lines 239 and 295-297)
BeginCheckAutoStart ==
  /\ sched.pc = "restart_scan"
  /\ sched.idx > Len(sched.snap)
  /\ sched' = [pc |-> "auto_scan", tick_now |-> now,
               snap |-> Items(auto_start_schedules), idx |-> 1, cur |-> NoLocals]
  /\ ret' = Ret("_check_auto_start_schedules", None, "", 0, None)
  /\ UNCHANGED <<time_vars, os_vars, monitor_vars, schedules, auto_start_schedules,
                 schedules_file, auto_start_file, config_calls, calc, settings_vars>>

\* lines 298-307
AutoStartIsDue(e, t) ==
  /\ e.enabled
  /\ e.next_check # None
  /\ t >= fromisoformat(e.next_check)

\* RestartScheduler._is_process_running(process_name)
_is_process_running(procs, process_name) == \E p \in procs : p.name = process_name

\* the entry updated without recomputing next_check
AutoAdvanceKeepsNext(item, t) == [item EXCEPT !.value.last_check = isoformat(t)]

\* lines 329-331: the entry the loop holds is updated
AutoAdvance(item, t) ==
  [item EXCEPT !.value.last_check = isoformat(t),
               !.value.next_check = _calculate_next_check(item.value, t)]

FinishAutoStart(outcome, val) ==
  LET item == AutoAdvance(CurItem, sched.tick_now)
      table == IF item.live THEN DictPut(auto_start_schedules, item.key, item.value)
               ELSE auto_start_schedules
  IN /\ auto_start_schedules' = table
     /\ auto_start_file' = table
     /\ sched' = [sched EXCEPT !.pc = "auto_scan",
                               !.snap[sched.idx] = item,
                               !.idx = @ + 1,
                               !.cur = NoLocals]
     /\ ret' = Ret("auto_start_done", item.key, outcome, 0, val)

\* one iteration of the for loop of _check_auto_start_schedules up to its
\* first await (lines 297-320 and 352-377)
CheckAutoStart ==
  /\ sched.pc = "auto_scan"
  /\ sched.idx <= Len(sched.snap)
  /\ LET e == CurItem.value
         path == StripQuotes(e.program_path)
     IN IF ~AutoStartIsDue(e, sched.tick_now)
        THEN /\ sched' = [sched EXCEPT !.idx = @ + 1]
             /\ ret' = Ret("check_auto_start", CurItem.key, "not_due", 0, None)
             /\ UNCHANGED <<os_vars, auto_start_schedules, auto_start_file>>
        ELSE IF _is_process_running(os_procs, e.process_name)
        THEN /\ FinishAutoStart("already_running", None)
             /\ UNCHANGED os_vars
        ELSE IF CanSpawn(path)
        THEN /\ next_pid <= MaxPid
             /\ os_procs' = Spawn(os_procs, next_pid, ExeName(path))
             /\ next_pid' = next_pid + 1
             /\ sched' = [sched EXCEPT
                            !.pc = "auto_spawn_wait",
                            !.cur = [process_name |-> e.process_name,
                                     program_path |-> path, killed |-> FALSE]]
             /\ ret' = Ret("spawn", e.process_name, "", 0, <<next_pid>>)
             /\ UNCHANGED <<auto_start_schedules, auto_start_file>>
        ELSE /\ FinishAutoStart("not_started", <<FALSE>>)
             /\ UNCHANGED os_vars
  /\ UNCHANGED <<time_vars, monitor_vars, schedules, schedules_file, config_calls, calc, settings_vars>>

\* await asyncio.sleep(1) returns; lines 378-385 and 329-333
AutoStartRegister ==
  /\ sched.pc = "auto_spawn_wait"
  /\ SetMonitor(add_process(MonitorState, sched.cur.process_name, TRUE))
  /\ FinishAutoStart("started", <<TRUE>>)
  /\ UNCHANGED <<time_vars, next_pid, alert_settings, schedules, schedules_file,
                 config_calls, calc, settings_vars>>

\* the for loop of _check_auto_start_schedules is exhausted;
\* _scheduler_loop awaits asyncio.sleep(10) (line 240)
EndTick ==
  /\ sched.pc = "auto_scan"
  /\ sched.idx > Len(sched.snap)
  /\ sched' = [sched EXCEPT !.pc = "sleep", !.snap = << >>, !.idx = 1]
  /\ ret' = Ret("sleep", None, "", 0, None)
  /\ UNCHANGED <<time_vars, os_vars, monitor_vars, schedules, auto_start_schedules,
                 schedules_file, auto_start_file, config_calls, calc, settings_vars>>

(***************************************************************************)
(* The system                                                              *)
(***************************************************************************)
EnvNext(os_names) ==
  \/ \E d \in TimeSteps : Advance(d)
  \/ \E n \in os_names : OSStart(n)
  \/ \E p \in os_procs : OSExit(p)

MonitorNext(names) ==
  \* AlertSettings.model_dump() values update_alert_settings receives
  \* settings dicts of the process-stopped alert, keyed as the API keys them
  LET AlertSettingsInputs ==
        { [processStoppedAlertEnabled |-> e, processStoppedMinutes |-> m,
           processStoppedSeconds |-> sec] :
            e \in BOOLEAN, m \in {0, 1}, sec \in {0, 1} }
  IN
  \/ \E outcomes \in [Names -> SampleOutcomes] : GetAllProcesses(outcomes)
  \/ \E n \in names : ApiAddProcess(n)
  \/ \E n \in names, pid \in {None} \cup {<<i>> : i \in 1..MaxPid} : ApiRemoveProcess(n, pid)
  \/ \E a \in AlertSettingsInputs : UpdateAlertSettings(a)

ConfigNext(restart_names, auto_names) ==
  \/ \E n \in restart_names, sc \in ScheduleInputs :
        \E path \in ProgramPaths(n) : update_schedule(n, HOSTNAME, sc, path)
  \/ \E n \in auto_names, sc \in ScheduleInputs :
        \E path \in ProgramPaths(n) : update_auto_start_schedule(n, HOSTNAME, sc, path)

SchedulerNext ==
  \/ SchedulerStart
  \/ BeginCheckSchedules
  \/ \E th \in ThreadCounts : CheckSchedule(th)
  \/ KillWaitDone
  \/ RestartSpawn
  \/ RestartRegister
  \/ BeginCheckAutoStart
  \/ CheckAutoStart
  \/ AutoStartRegister
  \/ EndTick

\* the monitor and its environment, the scheduler task not started
SpecMonitor == Init /\ [][EnvNext({BMS_EXE, BMS_UPPER}) \/ MonitorNext({BMS_EXE})]_vars

\* the scheduler, its configuration and its environment
SchedulerSystemNext == EnvNext({APP_EXE}) \/ ConfigNext(Names, {APP_EXE}) \/ SchedulerNext

SpecScheduler == Init /\ [][SchedulerSystemNext]_vars

\* the whole core
Next ==
  \/ EnvNext(OSNames)
  \/ \E p \in os_procs, io \in IoSteps : OSDiskIo(p, io)
  \/ MonitorNext(Names)
  \/ ConfigNext(Names, Names)
  \/ SchedulerNext

Spec == Init /\ [][Next]_vars

(***************************************************************************)
(* The next-time computations on their own: the inputs are drawn in the    *)
(* initial state and one step applies both functions                       *)
(***************************************************************************)
MaxCalcDay == 1
MaxCalcInterval == 2

InitCalc ==
  LET CalcSchedules ==
        LET CalcDailyTimes ==
              { None,
                <<"0", "0", ":", "0", "0">>,
                <<"0", "0", ":", "0", "1">>,
                <<"0", "6", ":", "0", "0">>,
                <<"6", ":", "5">>,
                <<"2", "3", ":", "5", "9">>,
                <<"2", "4", ":", "0", "0">>,
                <<"0", "6", ":", "6", "0">>,
                <<"0", "6", "0", "0">>,
                <<"0", "6", ":", "0", "0", ":", "0", "0">>,
                <<"a", "m", ":", "0", "0">> }
        IN
        LET CalcIntervals == {None} \cup {<<i>> : i \in 0..MaxCalcInterval}
        IN
        { Sched("interval", m, sec, None, TRUE) : m \in CalcIntervals, sec \in CalcIntervals }
        \cup { Sched("daily", None, None, dt, TRUE) : dt \in CalcDailyTimes }
        \cup { Sched("none", None, None, None, TRUE) }
  IN
  LET CalcTimes ==
        LET CalcSeconds == {0, 1, 59}
        IN
        LET CalcMinutes == {0, 1, 59}
        IN
        LET CalcHours == {0, 6, 23}
        IN
        { d * SecondsPerDay + h * SecondsPerHour + m * SecondsPerMinute + sec :
            d \in 0..MaxCalcDay, h \in CalcHours, m \in CalcMinutes, sec \in CalcSeconds }
  IN
  /\ now \in CalcTimes
  /\ clock_steps = 0
  /\ os_procs = {}
  /\ next_pid = 1
  /\ monitored_processes = << >>
  /\ prev_process_status = << >>
  /\ process_stopped_time = << >>
  /\ process_stopped_alerted = << >>
  /\ alerts = << >>
  /\ alert_settings = InitialAlertSettings
  /\ thresholds = InitialThresholds
  /\ history_length = ShortHistoryLength
  /\ process_history = << >>
  /\ prev_metrics = << >>
  /\ processes_file = << >>
  /\ down = [n \in Names |-> [first_stopped |-> None, stopped_alerts |-> 0]]
  /\ schedules = << >>
  /\ auto_start_schedules = << >>
  /\ schedules_file = << >>
  /\ auto_start_file = << >>
  /\ sched = [pc |-> "not_started", tick_now |-> 0, snap |-> << >>, idx |-> 1,
              cur |-> NoLocals]
  /\ config_calls = 0
  /\ ret = Ret("init", None, "", 0, None)
  /\ \E sc \in CalcSchedules : calc = [schedule |-> sc, done |-> FALSE,
                                       next_restart |-> None, next_check |-> None]

\* _calculate_next_restart(schedule, now) and _calculate_next_check(schedule, now)
ApplyCalc ==
  /\ ~calc.done
  /\ calc' = [calc EXCEPT !.done = TRUE,
                          !.next_restart = _calculate_next_restart(calc.schedule, now),
                          !.next_check = _calculate_next_check(calc.schedule, now)]
  /\ UNCHANGED <<time_vars, os_vars, monitor_vars, sched_vars, config_calls, ret,
                 settings_vars>>

SpecCalc == InitCalc /\ [][ApplyCalc]_vars

(***************************************************************************)
(* Properties                                                              *)
(***************************************************************************)
\* number of alerts of one type for one process in the buffer
AlertCount(al, type, p) ==
  Cardinality({i \in DOMAIN al : al[i].alert_type = type /\ al[i].process_name = p})

StoppedAlerts(al, p) == AlertCount(al, "PROCESS_STOPPED", p)
StartedAlerts(al, p) == AlertCount(al, "PROCESS_STARTED", p)

\* C1: a PROCESS_STOPPED alert for p is appended only on a tick at which the
\* time since the first stopped observation of the current down-period (the
\* ticks that saw p stopped since it was last seen running) is at least
\* process_stopped_minutes*60 + process_stopped_seconds.
C1_DurationGating ==
  [][\A p \in Names :
       StoppedAlerts(alerts', p) > StoppedAlerts(alerts, p)
         => /\ down'[p].first_stopped # None
            /\ now - down'[p].first_stopped[1]
                 >= alert_settings.process_stopped_minutes * SecondsPerMinute
                      + alert_settings.process_stopped_seconds]_vars

C3_ClearedOnRecovery ==
  \A p \in Names :
    GetOr(prev_process_status, p, "") = "running"
      => /\ p \notin DOMAIN process_stopped_time
         /\ p \notin DOMAIN process_stopped_alerted

\* C4: on a tick that finds the tracked pid of p dead while a process matching
\* p is running, exactly one PROCESS_STARTED alert for p is appended and p's
\* stop time and alerted flag are removed if the previous observation of p was
\* stopped, and no PROCESS_STARTED alert is appended otherwise.
C4_StartedOnReacquire ==
  [][\A p \in Names :
       ( /\ DictHas(monitored_processes, p)
         /\ ~is_running(os_procs, DictGet(monitored_processes, p).pid)
         /\ FirstMatchIgnoreCase(os_procs, p) # None
         /\ \E outcomes \in [Names -> SampleOutcomes] : GetAllProcesses(outcomes) )
         => IF GetOr(prev_process_status, p, "") = "stopped"
            THEN /\ StartedAlerts(alerts', p) = StartedAlerts(alerts, p) + 1
                 /\ p \notin DOMAIN process_stopped_time'
                 /\ p \notin DOMAIN process_stopped_alerted'
            ELSE StartedAlerts(alerts', p) = StartedAlerts(alerts, p)]_vars

\* p was alerted as stopped, then re-acquired: the alert is followed by a
\* PROCESS_STARTED alert and the down state is gone
C4_Witness ==
  \E p \in Names :
    /\ \E i, j \in DOMAIN alerts :
         /\ i < j
         /\ alerts[i].alert_type = "PROCESS_STOPPED" /\ alerts[i].process_name = p
         /\ alerts[j].alert_type = "PROCESS_STARTED" /\ alerts[j].process_name = p
    /\ p \notin DOMAIN process_stopped_time
    /\ p \notin DOMAIN process_stopped_alerted

\* the entry of the step just taken by the loop of the scheduler task
DoneItem == sched.snap[sched.idx - 1]

\* C5: when a due restart entry of a BMS-type process is examined while the
\* log shows an active thread count greater than 0, the step kills nothing,
\* spawns nothing, and leaves the entry's next_restart and last_restart (in
\* the table and in the loop's copy) unchanged.
C5_BusyDeferral ==
  [][\A th \in ThreadCounts \ {0} :
       ( /\ CheckSchedule(th)
         /\ RestartIsDue(CurItem.value, sched.tick_now)
         /\ is_bms_process(CurItem.value.process_name) )
       => /\ os_procs' = os_procs
          /\ next_pid' = next_pid
          /\ schedules' = schedules
          /\ sched'.snap = sched.snap
          /\ sched'.pc = "restart_scan"]_vars

\* a due BMS entry has been examined with a positive active thread count and
\* no restart was begun
C5_Witness ==
  /\ ret.op = "check_schedule"
  /\ ret.threads > 0
  /\ ret.outcome \in {"error", "postponed"}
  /\ is_bms_process(DoneItem.value.process_name)
  /\ RestartIsDue(DoneItem.value, sched.tick_now)

\* C6: when a due restart entry of a BMS-type process is examined while the
\* active thread count is 0, the restart action is begun on that step (the
\* kill, then the spawn), so that the entry does not stay due.
C6_IdleRestartCarriedOut ==
  [][( /\ CheckSchedule(0)
       /\ RestartIsDue(CurItem.value, sched.tick_now)
       /\ is_bms_process(CurItem.value.process_name) )
     => sched'.pc \in {"restart_kill_wait", "restart_spawn"}]_vars

\* C7: when an attempted restart of a due entry completes, whether
\* _restart_process returned True or False, the entry's last_restart is the
\* tick time and its next_restart is recomputed from the tick time, and the
\* table holds these values when it still holds the entry.
C7_AdvanceAfterAttempt ==
  [][( /\ sched.pc \in {"restart_spawn", "restart_spawn_wait"}
       /\ sched'.pc = "restart_scan" )
     => LET before == CurItem
            after == sched'.snap[sched.idx]
        IN /\ after.value.last_restart = isoformat(sched.tick_now)
           /\ after.value.next_restart =
                _calculate_next_restart(before.value, sched.tick_now)
           /\ before.live => /\ DictHas(schedules', before.key)
                             /\ DictGet(schedules', before.key) = after.value]_vars

\* a restart attempt that returned False has completed and the entry was
\* advanced all the same
C7_Witness ==
  /\ ret.op = "restart_done"
  /\ ret.val = <<FALSE>>
  /\ DoneItem.value.last_restart = isoformat(sched.tick_now)

\* the entry a completed auto-start check leaves behind: last_check and
\* next_check are taken from the tick time
AutoStartAdvanced ==
  LET before == CurItem
      after == sched'.snap[sched.idx]
  IN /\ after.value.last_check = isoformat(sched.tick_now)
     /\ after.value.next_check = _calculate_next_check(before.value, sched.tick_now)
     /\ before.live => /\ DictHas(auto_start_schedules', before.key)
                       /\ DictGet(auto_start_schedules', before.key) = after.value

\* C8 as claimed: for a due auto-start entry, if no OS process with the
\* entry's name is running a process is spawned (nothing is killed) and the
\* name is registered with the monitor; if one is running nothing is spawned
\* or killed; in both cases next_check is advanced from the tick time.
C8_AutoStartSpawnsWhenNotRunning ==
  [][ /\ ( /\ CheckAutoStart
           /\ AutoStartIsDue(CurItem.value, sched.tick_now) )
         => IF _is_process_running(os_procs, CurItem.value.process_name)
            THEN os_procs' = os_procs /\ AutoStartAdvanced
            ELSE /\ os_procs \subseteq os_procs'
                 /\ os_procs' # os_procs
      /\ AutoStartRegister
         => /\ DictHas(monitored_processes', sched.cur.process_name)
            /\ AutoStartAdvanced ]_vars

\* C8 as amended: for a due auto-start entry, if no OS process with the
\* entry's name is running and the entry's program path is set and exists,
\* the executable is spawned (nothing is killed) and, after the wait,
\* add_process(name) registers the name when a matching process is then
\* running; if a process with the name is running, or the path is unset or
\* missing, nothing is spawned or killed; in every case next_check is
\* advanced from the tick time when the check of the entry completes.
C8_AutoStartSpawnsWhenPathExists ==
  [][ /\ ( /\ CheckAutoStart
           /\ AutoStartIsDue(CurItem.value, sched.tick_now) )
         => LET name == CurItem.value.process_name
                path == StripQuotes(CurItem.value.program_path)
            IN IF ~_is_process_running(os_procs, name) /\ CanSpawn(path)
               THEN /\ os_procs' = Spawn(os_procs, next_pid, ExeName(path))
                    /\ os_procs' # os_procs
                    /\ sched'.pc = "auto_spawn_wait"
               ELSE /\ os_procs' = os_procs
                    /\ AutoStartAdvanced
      /\ AutoStartRegister
         => LET name == sched.cur.process_name
                hit == FirstMatchIgnoreCase(os_procs, name)
            IN /\ os_procs' = os_procs
               /\ IF hit # None
                  THEN /\ DictHas(monitored_processes', name)
                       /\ DictGet(monitored_processes', name).pid = hit[1].pid
                  ELSE monitored_processes' = monitored_processes
               /\ AutoStartAdvanced ]_vars

\* an auto-start check found the process absent, spawned it, registered it
\* and advanced the entry
C8_Witness ==
  /\ ret.op = "auto_start_done"
  /\ ret.outcome = "started"
  /\ DictHas(monitored_processes, DoneItem.value.process_name)
  /\ DoneItem.value.next_check # None
  /\ fromisoformat(DoneItem.value.next_check) > sched.tick_now

\* an entry with type=interval, intervalMinutes=0 and intervalSeconds=0
ZeroInterval(e) ==
  e.type = "interval" /\ e.intervalMinutes = <<0>> /\ e.intervalSeconds = <<0>>

\* C9: a restart entry, and likewise an auto-start entry, with type=interval,
\* intervalMinutes=0 and intervalSeconds=0 is never found due: the step that
\* examines it kills nothing, spawns nothing, changes no table and moves on to
\* the next entry.
C9_ZeroIntervalNeverTriggers ==
  [][ /\ \A th \in ThreadCounts :
           (CheckSchedule(th) /\ ZeroInterval(CurItem.value))
           => /\ ~RestartIsDue(CurItem.value, sched.tick_now)
              /\ os_procs' = os_procs
              /\ schedules' = schedules
              /\ sched'.pc = "restart_scan" /\ sched'.idx = sched.idx + 1
      /\ (CheckAutoStart /\ ZeroInterval(CurItem.value))
           => /\ ~AutoStartIsDue(CurItem.value, sched.tick_now)
              /\ os_procs' = os_procs
              /\ auto_start_schedules' = auto_start_schedules
              /\ sched'.pc = "auto_scan" /\ sched'.idx = sched.idx + 1 ]_vars

\* an enabled 0/0 interval entry was examined by a tick after time had passed
\* since it was stored, and was not due
C9_Witness ==
  /\ ret.op \in {"check_schedule", "check_auto_start"}
  /\ ret.outcome = "not_due"
  /\ ZeroInterval(DoneItem.value)
  /\ DoneItem.value.enabled
  /\ sched.tick_now > 0

\* C10: for type=interval with minutes*60+seconds > 0 both computations give
\* now + minutes*60 + seconds; for type=daily they give HH:MM:00 of today when
\* that is strictly after now and HH:MM:00 of tomorrow otherwise; every time
\* they give is strictly later than now.
C10_NextTime ==
  \* "HH:MM" strings with the hour and minute they denote
  LET DailyCases ==
        { << <<"0", "0", ":", "0", "0">>, 0, 0 >>,
          << <<"0", "0", ":", "0", "1">>, 0, 1 >>,
          << <<"0", "6", ":", "0", "0">>, 6, 0 >>,
          << <<"2", "3", ":", "5", "9">>, 23, 59 >> }
  IN
  calc.done =>
    LET sc == calc.schedule
        total == OrZero(sc.intervalMinutes) * SecondsPerMinute + OrZero(sc.intervalSeconds)
        today == now \div SecondsPerDay
        time_of_day == now % SecondsPerDay
    IN \A r \in {calc.next_restart, calc.next_check} :
         /\ (sc.type = "interval" /\ total > 0)
              => r # None /\ fromisoformat(r) = now + total
         /\ \A c \in DailyCases :
              (sc.type = "daily" /\ sc.dailyTime = c[1])
              => r = IF c[2] * SecondsPerHour + c[3] * SecondsPerMinute > time_of_day
                     THEN <<today, c[2], c[3], 0>>
                     ELSE <<today + 1, c[2], c[3], 0>>
         /\ r # None => fromisoformat(r) > now

\* a daily time that is not strictly after now was moved to tomorrow
C10_Witness ==
  /\ calc.done
  /\ calc.schedule.type = "daily"
  /\ calc.next_check # None
  /\ calc.next_check[1] = (now \div SecondsPerDay) + 1
  /\ calc.next_check[2] * SecondsPerHour + calc.next_check[3] * SecondsPerMinute
       = now % SecondsPerDay

(***************************************************************************)
(* The schedule tables on their own: RestartScheduler.__init__ loads the   *)
(* tables an earlier run saved, then configuration calls and the clock     *)
(***************************************************************************)

\* RestartScheduler.__init__ (lines 24-33): both tables loaded from disk
InitConfig ==
  LET SavedAutoStartSchedules ==
        { << >> } \cup
        { <<[key |-> ScheduleKey(BMS_EXE, HOSTNAME),
             value |-> AutoStartEntry(BMS_EXE, HOSTNAME, sc, None, 0)]>> :
            sc \in {x \in ScheduleInputs : x.enabled /\ x.type # "none"} }
  IN
  \* tables _save_schedules / _save_auto_start_schedules of an earlier run left
  \* on disk: empty, or one entry stored by an update at time 0
  LET SavedSchedules ==
        { << >> } \cup
        { <<[key |-> ScheduleKey(BMS_EXE, HOSTNAME),
             value |-> RestartEntry(BMS_EXE, HOSTNAME, sc, None, 0)]>> :
            sc \in {x \in ScheduleInputs : x.enabled /\ x.type # "none"} }
  IN
  /\ now = 0
  /\ clock_steps = 0
  /\ os_procs = {}
  /\ next_pid = 1
  /\ monitored_processes = << >>
  /\ prev_process_status = << >>
  /\ process_stopped_time = << >>
  /\ process_stopped_alerted = << >>
  /\ alerts = << >>
  /\ alert_settings = InitialAlertSettings
  /\ thresholds = InitialThresholds
  /\ history_length = ShortHistoryLength
  /\ process_history = << >>
  /\ prev_metrics = << >>
  /\ processes_file = << >>
  /\ down = [n \in Names |-> [first_stopped |-> None, stopped_alerts |-> 0]]
  /\ schedules \in SavedSchedules
  /\ auto_start_schedules \in SavedAutoStartSchedules
  /\ schedules_file = schedules
  /\ auto_start_file = auto_start_schedules
  /\ sched = [pc |-> "not_started", tick_now |-> 0, snap |-> << >>, idx |-> 1,
              cur |-> NoLocals]
  /\ config_calls = 0
  /\ ret = Ret("init", None, "", 0, None)
  /\ calc = << >>

SpecConfig ==
  /\ InitConfig
  /\ [][\/ \E d \in TimeSteps : Advance(d)
        \/ ConfigNext(Names, Names)]_vars

\* C11: update_schedule / update_auto_start_schedule with enabled=false or
\* type='none' leaves no entry for (process_name, hostname) in its table; with
\* an active type it stores an entry holding the given fields, no last time,
\* and the next time computed from the current time; and every entry present
\* in either table has enabled=true and type != 'none'.
C11_UpdateRemovesOrReplaces ==
  /\ [](\A i \in DOMAIN schedules :
          schedules[i].value.enabled /\ schedules[i].value.type # "none")
  /\ [](\A i \in DOMAIN auto_start_schedules :
          auto_start_schedules[i].value.enabled
          /\ auto_start_schedules[i].value.type # "none")
  /\ [][\A n \in {m \in Names : ret'.name = m \o <<":">> \o HOSTNAME},
            sc \in ScheduleInputs :
          \A path \in ProgramPaths(n) :
            LET key == n \o <<":">> \o HOSTNAME
                off == ~sc.enabled \/ sc.type = "none"
            IN /\ (ret'.op = "update_schedule"
                   /\ update_schedule(n, HOSTNAME, sc, path))
                  => IF off THEN ~DictHas(schedules', key)
                     ELSE /\ DictHas(schedules', key)
                          /\ DictGet(schedules', key).type = sc.type
                          /\ DictGet(schedules', key).program_path = path
                          /\ DictGet(schedules', key).last_restart = None
                          /\ DictGet(schedules', key).next_restart
                               = _calculate_next_restart(sc, now)
               /\ (ret'.op = "update_auto_start_schedule"
                   /\ update_auto_start_schedule(n, HOSTNAME, sc, path))
                  => IF off THEN ~DictHas(auto_start_schedules', key)
                     ELSE /\ DictHas(auto_start_schedules', key)
                          /\ DictGet(auto_start_schedules', key).type = sc.type
                          /\ DictGet(auto_start_schedules', key).program_path = path
                          /\ DictGet(auto_start_schedules', key).last_check = None
                          /\ DictGet(auto_start_schedules', key).next_check
                               = _calculate_next_check(sc, now)]_vars

\* after time had passed an update replaced the loaded entry of a table: the
\* entry has no last time and a next time later than the current time
C11_Witness ==
  /\ now > 0
  /\ \/ /\ ret.op = "update_schedule"
        /\ DictHas(schedules, ret.name)
        /\ DictGet(schedules, ret.name).last_restart = None
        /\ DictGet(schedules, ret.name).next_restart # None
        /\ fromisoformat(DictGet(schedules, ret.name).next_restart) > now
     \/ /\ ret.op = "update_auto_start_schedule"
        /\ DictHas(auto_start_schedules, ret.name)
        /\ DictGet(auto_start_schedules, ret.name).last_check = None
        /\ DictGet(auto_start_schedules, ret.name).next_check # None
        /\ fromisoformat(DictGet(auto_start_schedules, ret.name).next_check) > now

(***************************************************************************)
(* The registry of monitored processes: the OS, the API calls that add and *)
(* remove a name, and the ticks of broadcast_updates                       *)
(***************************************************************************)
SpecRegistry ==
  /\ Init
  /\ [][\/ \E n \in OSNames : OSStart(n)
        \/ \E p \in os_procs : OSExit(p)
        \/ \E outcomes \in [Names -> SampleOutcomes] : GetAllProcesses(outcomes)
        \/ \E n \in Names : ApiAddProcess(n)
        \/ \E n \in Names, pid \in {None} \cup {<<i>> : i \in 1..MaxPid} : ApiRemoveProcess(n, pid)]_vars

\* the running OS processes whose name equals process_name ignoring case
Matching(process_name) == {p \in os_procs : Lower(p.name) = Lower(process_name)}

\* C12: add_process(name) returns False and leaves monitored_processes and the
\* saved name list unchanged whenever no running OS process has a name equal to
\* name ignoring case; when it returns True, name is registered with the pid of
\* a running process whose name matches, and name is in the saved list.
C12_AddProcessNeedsMatch ==
  [][\A n \in Names :
       ApiAddProcess(n) =>
         LET found == add_process(MonitorState, n, TRUE).res
         IN /\ Matching(n) = {} =>
                 /\ found = FALSE
                 /\ monitored_processes' = monitored_processes
                 /\ processes_file' = processes_file
            /\ found = TRUE =>
                 /\ DictHas(monitored_processes', n)
                 /\ \E p \in Matching(n) : DictGet(monitored_processes', n).pid = p.pid
                 /\ \E i \in DOMAIN processes_file' : processes_file'[i] = n]_vars

\* C12 witness: bms is registered by add_process (no tick has observed it) with
\* the pid of a running process named BMS, and the name is saved
C12_Witness ==
  /\ DictHas(monitored_processes, BMS_EXE)
  /\ BMS_EXE \notin DOMAIN prev_process_status
  /\ \E p \in os_procs : p.name = BMS_UPPER /\ p.pid = DictGet(monitored_processes, BMS_EXE).pid
  /\ \E i \in DOMAIN processes_file : processes_file[i] = BMS_EXE

\* remove_process(n, pid) finds n registered and, if a pid is given, tracked
\* under that pid
Removable(n, pid) ==
  /\ DictHas(monitored_processes, n)
  /\ pid = None \/ pid[1] = DictGet(monitored_processes, n).pid

\* C13: remove_process(name, pid) returns True exactly when name is registered
\* and pid is not given or equals the tracked pid, and then the registration
\* and the history of name are gone and the saved list no longer holds name;
\* otherwise it returns False and monitored_processes, the history and the
\* saved list are unchanged.
C13_RemoveProcessFrame ==
  [][\A n \in Names, pid \in {None} \cup {<<i>> : i \in 1..MaxPid} :
       ApiRemoveProcess(n, pid) =>
         /\ remove_process(MonitorState, n, pid).res = Removable(n, pid)
         /\ Removable(n, pid) =>
              /\ ~DictHas(monitored_processes', n)
              /\ n \notin DOMAIN process_history'
              /\ \A i \in DOMAIN processes_file' : processes_file'[i] # n
              /\ \A m \in Names \ {n} :
                   /\ DictHas(monitored_processes', m) = DictHas(monitored_processes, m)
                   /\ DictHas(monitored_processes, m) =>
                        DictGet(monitored_processes', m) = DictGet(monitored_processes, m)
                   /\ GetOr(process_history', m, << >>) = GetOr(process_history, m, << >>)
         /\ ~Removable(n, pid) =>
              /\ monitored_processes' = monitored_processes
              /\ process_history' = process_history
              /\ processes_file' = processes_file]_vars

\* C13 witness: bms was sampled while registered (a history existed), and now
\* is neither registered nor saved nor has a history, while app still is
\* registered with its history
C13_Witness ==
  /\ GetOr(prev_process_status, BMS_EXE, "") = "running"
  /\ ~DictHas(monitored_processes, BMS_EXE)
  /\ BMS_EXE \notin DOMAIN process_history
  /\ DictHas(monitored_processes, APP_EXE)
  /\ APP_EXE \in DOMAIN process_history
  /\ processes_file = <<APP_EXE>>

(***************************************************************************)
(* The monitor after a startup that found bms in the saved list and        *)
(* running, and registered it (_load_saved_processes); hl is the           *)
(* history_length of the settings                                          *)
(***************************************************************************)
InitStarted(hl) ==
  /\ now = 0
  /\ clock_steps = 0
  /\ os_procs = Spawn({}, 1, BMS_EXE)
  /\ next_pid = 2
  /\ monitored_processes = DictPut(<< >>, BMS_EXE, [pid |-> 1])
  /\ prev_process_status = << >>
  /\ process_stopped_time = << >>
  /\ process_stopped_alerted = << >>
  /\ alerts = << >>
  /\ alert_settings = InitialAlertSettings
  /\ thresholds = InitialThresholds
  /\ history_length = hl
  /\ process_history = << >>
  /\ prev_metrics = << >>
  /\ processes_file = <<BMS_EXE>>
  /\ down = [n \in Names |-> [first_stopped |-> None, stopped_alerts |-> 0]]
  /\ schedules = << >>
  /\ auto_start_schedules = << >>
  /\ schedules_file = << >>
  /\ auto_start_file = << >>
  /\ sched = [pc |-> "not_started", tick_now |-> 0, snap |-> << >>, idx |-> 1,
              cur |-> NoLocals]
  /\ config_calls = 0
  /\ ret = Ret("init", None, "", 0, None)
  /\ calc = None

(***************************************************************************)
(* The history buffer: every history_length up to MaxHistoryLength, the    *)
(* samplings with all metrics 0 or all metrics at their thresholds         *)
(***************************************************************************)
MaxHistoryLength == 3

\* samplings that raise no alert
QuietOutcomes == {"ok", "at_threshold"}

\* the samplings of a tick: o for the registered names
OutcomesOf(o) == [n \in Names |-> IF DictHas(monitored_processes, n) THEN o ELSE "io_denied"]

SpecHistory ==
  /\ \E hl \in 0..MaxHistoryLength : InitStarted(hl)
  /\ [][\/ \E d \in TimeSteps : Advance(d)
        \/ \E o \in QuietOutcomes : GetAllProcesses(OutcomesOf(o))
        \/ ApiRemoveProcess(BMS_EXE, None)
        \/ ApiAddProcess(BMS_EXE)]_vars

\* ProcessMonitor.get_process_history(process_name)
get_process_history(process_name) == GetOr(process_history, process_name, << >>)

\* C14: get_process_history(p) never returns more than history_length samples,
\* its samples are in insertion order, and a tick that samples p turns it into
\* the last history_length samples of the previous history followed by the new
\* sample: the oldest sample is the one that is dropped.
C14_HistoryBounded ==
  /\ [](\A p \in Names :
          /\ Len(get_process_history(p)) <= history_length
          /\ \A i \in 1..(Len(get_process_history(p)) - 1) :
               get_process_history(p)[i].timestamp
                 <= get_process_history(p)[i + 1].timestamp)
  /\ [][\* SampleAt: the sample a tick at time t appends for a sampling with this
        \* outcome; LastN: the last n elements of q, all of q if it has no more
        LET SampleAt(p, outcome, t) ==
              [timestamp |-> t,
               metrics |-> Measure(MonitorState, DictGet(monitored_processes, p).pid,
                                   outcome, t).metrics]
            LastN(q, n) == IF Len(q) <= n THEN q ELSE SubSeq(q, Len(q) - n + 1, Len(q))
        IN \A p \in Names, o \in QuietOutcomes :
             (GetAllProcesses(OutcomesOf(o)) /\ DictHas(monitored_processes, p)
                /\ is_running(os_procs, DictGet(monitored_processes, p).pid))
               => get_process_history(p)' =
                    LastN(Append(get_process_history(p), SampleAt(p, o, now)),
                          history_length)]_vars

\* C14 witness: the history of bms is full with more than one sample, the
\* first sample taken (at time 0) has been dropped, and the samples kept differ
C14_Witness ==
  /\ history_length > 1
  /\ Len(get_process_history(BMS_EXE)) = history_length
  /\ get_process_history(BMS_EXE)[1].timestamp > 0
  /\ get_process_history(BMS_EXE)[history_length].timestamp
       > get_process_history(BMS_EXE)[1].timestamp
  /\ get_process_history(BMS_EXE)[1].metrics.cpu_percent
       > get_process_history(BMS_EXE)[history_length].metrics.cpu_percent

(***************************************************************************)
(* The alert buffer: bms registered and running, every sampling with CPU,  *)
(* memory and network above their thresholds, until bms exits              *)
(***************************************************************************)
SpecAlerts ==
  /\ InitStarted(ShortHistoryLength)
  /\ [][\/ \E d \in {1} : Advance(d)
        \/ GetAllProcesses(OutcomesOf("all_high"))
        \/ \E p \in os_procs : OSExit(p)]_vars

\* the alert types of _check_thresholds
ThresholdAlertTypes == {"CPU", "RAM", "Disk I/O", "Network"}

\* C15: the alert buffer never holds more than 100 alerts and is in insertion
\* order; every step appends at the end, drops from the front only the alerts
\* that no longer fit in 100, and leaves every alert that stays unmodified and
\* in the same order.
C15_AlertsBounded ==
  /\ [](/\ Len(alerts) <= AlertsMaxLen
        /\ \A i \in 1..(Len(alerts) - 1) : alerts[i].timestamp <= alerts[i + 1].timestamp)
  /\ [][\* an operation appends at most one threshold alert of each type
        \E k \in 0..Cardinality(ThresholdAlertTypes) :
          LET evicted == IF Len(alerts) + k > AlertsMaxLen
                         THEN Len(alerts) + k - AlertsMaxLen ELSE 0
          IN /\ Len(alerts') = Len(alerts) + k - evicted
             /\ \A i \in 1..(Len(alerts) - evicted) : alerts'[i] = alerts[i + evicted]]_vars

\* C15 witness: the buffer is full and its oldest alert is a Network alert:
\* the CPU and RAM alerts of the same tick, appended before it, were evicted
\* by the alerts of later ticks
C15_Witness ==
  /\ Len(alerts) = AlertsMaxLen
  /\ alerts[1].alert_type = "Network"
  /\ alerts[AlertsMaxLen].alert_type = "Network"
  /\ alerts[AlertsMaxLen].timestamp > alerts[1].timestamp

(***************************************************************************)
(* Threshold alerts: bms registered and running, samplings with every      *)
(* reading of MetricOutcomes, the alert toggles changed through            *)
(* update_alert_settings; ticks are taken while the buffer holds at most   *)
(* MaxAlertsBeforeTick alerts                                              *)
(***************************************************************************)
MaxAlertsBeforeTick == 1

\* settings dicts for the four toggles: one key alone, or all keys as
\* AlertSettings.model_dump() yields them
ToggleInputs ==
  { [cpuAlertEnabled |-> b] : b \in BOOLEAN }
    \cup { [ramAlertEnabled |-> b] : b \in BOOLEAN }
    \cup { [diskIoAlertEnabled |-> b] : b \in BOOLEAN }
    \cup { [networkAlertEnabled |-> b] : b \in BOOLEAN }
    \cup { [cpuAlertEnabled |-> c, ramAlertEnabled |-> r, diskIoAlertEnabled |-> d,
            networkAlertEnabled |-> n, processStoppedAlertEnabled |-> TRUE,
            processStoppedMinutes |-> 0, processStoppedSeconds |-> 0] :
             c \in BOOLEAN, r \in BOOLEAN, d \in BOOLEAN, n \in BOOLEAN }

SpecThreshold ==
  /\ InitStarted(ShortHistoryLength)
  /\ [][\/ \E d \in {1} : Advance(d)
        \/ \E o \in MetricOutcomes :
             Len(alerts) <= MaxAlertsBeforeTick /\ GetAllProcesses(OutcomesOf(o))
        \/ \E a \in ToggleInputs : UpdateAlertSettings(a)
        \/ \E p \in os_procs : OSDiskIo(p, [read_bytes |-> 606 * BytesPerMB, write_bytes |-> 0])]_vars

\* the value _check_thresholds compares for each alert type
MetricValue(type, m) ==
  CASE type = "CPU" -> m.cpu_percent
    [] type = "RAM" -> m.memory_percent
    [] type = "Disk I/O" -> m.disk_read_mb + m.disk_write_mb
    [] type = "Network" -> m.net_sent_mb + m.net_recv_mb

\* the threshold of each alert type
ThresholdOf(type) ==
  CASE type = "CPU" -> thresholds.cpu
    [] type = "RAM" -> thresholds.ram
    [] type = "Disk I/O" -> thresholds.disk_io
    [] type = "Network" -> thresholds.network

\* the toggle of each alert type
ToggleOf(type) ==
  CASE type = "CPU" -> alert_settings.cpu_alert_enabled
    [] type = "RAM" -> alert_settings.ram_alert_enabled
    [] type = "Disk I/O" -> alert_settings.disk_io_alert_enabled
    [] type = "Network" -> alert_settings.network_alert_enabled

\* C16: a tick that samples the running process p appends exactly one alert of
\* a type for p when that type's toggle is enabled and its metric is greater
\* than its threshold, whatever alerts the buffer already holds (no cooldown),
\* and appends no alert of that type otherwise.
C16_NoCooldown ==
  [][\A o \in MetricOutcomes :
       (UNCHANGED <<now, alert_settings>> /\ GetAllProcesses(OutcomesOf(o))) =>
         \A p \in {n \in Names : DictHas(monitored_processes, n)},
            type \in ThresholdAlertTypes :
           AlertCount(alerts', type, p) =
             AlertCount(alerts, type, p)
               + (IF /\ ToggleOf(type)
                     /\ MetricValue(type, Measure(MonitorState,
                                                  DictGet(monitored_processes, p).pid,
                                                  o, now).metrics) > ThresholdOf(type)
                  THEN 1 ELSE 0)]_vars

\* C16 witness: two ticks at the same time have each appended a CPU alert for
\* bms, the second while the first was the newest alert in the buffer
C16_Witness ==
  \E i \in 1..(Len(alerts) - 1) :
    /\ alerts[i].alert_type = "CPU" /\ alerts[i + 1].alert_type = "CPU"
    /\ alerts[i].timestamp = alerts[i + 1].timestamp
    /\ alerts[i].process_name = BMS_EXE /\ alerts[i + 1].process_name = BMS_EXE

\* C17: on a tick that samples p, a type whose toggle is false gets no alert,
\* while every other type whose toggle is true and whose metric is above its
\* threshold gets its alert on that same tick; update_alert_settings sets the
\* toggles whose keys are in its argument to the given values and leaves every
\* other toggle as it was.
C17_TogglesIndependent ==
  /\ [][\A o \in MetricOutcomes :
          (UNCHANGED <<now, alert_settings>> /\ GetAllProcesses(OutcomesOf(o))) =>
            \A p \in {n \in Names : DictHas(monitored_processes, n)},
               off \in {t \in ThresholdAlertTypes : ~ToggleOf(t)} :
              /\ AlertCount(alerts', off, p) = AlertCount(alerts, off, p)
              /\ \A on \in {t \in ThresholdAlertTypes : ToggleOf(t)} :
                   MetricValue(on, Measure(MonitorState,
                                           DictGet(monitored_processes, p).pid,
                                           o, now).metrics) > ThresholdOf(on)
                     => AlertCount(alerts', on, p) = AlertCount(alerts, on, p) + 1]_vars
  /\ [][\A a \in ToggleInputs :
          (UNCHANGED <<now, alerts>> /\ UpdateAlertSettings(a)) =>
            \* the alert_settings flag each toggle key of a settings dict sets
            \A k \in { [key |-> "cpuAlertEnabled", type |-> "CPU"],
                       [key |-> "ramAlertEnabled", type |-> "RAM"],
                       [key |-> "diskIoAlertEnabled", type |-> "Disk I/O"],
                       [key |-> "networkAlertEnabled", type |-> "Network"] } :
              ToggleOf(k.type)' = IF k.key \in DOMAIN a THEN a[k.key] ELSE ToggleOf(k.type)]_vars

\* C17 witness: the CPU toggle is off, the three others are on, and the last
\* sampling of bms, with all four metrics high, has put a RAM, a disk and a
\* network alert in the buffer and no CPU alert
C17_Witness ==
  /\ ~alert_settings.cpu_alert_enabled
  /\ alert_settings.ram_alert_enabled
  /\ alert_settings.disk_io_alert_enabled
  /\ alert_settings.network_alert_enabled
  /\ Len(get_process_history(BMS_EXE)) > 0
  /\ get_process_history(BMS_EXE)[Len(get_process_history(BMS_EXE))].metrics.cpu_percent
       = Reading("all_high").cpu_percent
  /\ Len(alerts) = 3
  /\ alerts[1].alert_type = "RAM"
  /\ alerts[2].alert_type = "Disk I/O"
  /\ alerts[3].alert_type = "Network"

(***************************************************************************)
(* BMSLogMonitor: the status read from the two log files of the day.       *)
(* A log file is a sequence of lines, a line the sequence of its words     *)
(* (<< >> for a blank line); re.search of a pattern is the search of the   *)
(* pattern's words in the line                                             *)
(***************************************************************************)
PATTERN_START_GATEWAY == <<"Start", "Gateway.">>
PATTERN_STOP_GATEWAY == <<"Stop", "Gateway.">>
PATTERN_HEARTBEAT == <<"1------------------", "=", "7">>
PATTERN_RECONNECT_OK == <<"ReConnect", "DB", "OK.">>

\* re.search(pattern, line)
Search(pattern, line) == Contains(pattern, line)

\* _parse_log_time(line): the line starts with HH:MM:SS and a colon; the
\* result is that time on the day of t
_parse_log_time(line, t) ==
  \* the words that are a time of day HH:MM:SS, and the time each one writes
  LET ClockWords ==
        [w \in {"00:00:00", "00:00:01"} |-> IF w = "00:00:00" THEN <<0, 0, 0>> ELSE <<0, 0, 1>>]
  IN
  IF Len(line) >= 2 /\ line[1] \in DOMAIN ClockWords /\ line[2] = ":"
  THEN <<t \div SecondsPerDay>> \o ClockWords[line[1]]
  ELSE None

\* _read_log_file's default max_lines
max_lines == 100

\* _read_log_file(file_path): the last max_lines lines of the file
_read_log_file(file) ==
  IF Len(file) > max_lines THEN SubSeq(file, Len(file) - max_lines + 1, Len(file))
  ELSE file

\* the lines parse_system_log looks at for threads: lines[-50:]
thread_lines == 50

\* parse_system_log, lines 198-226. The loop goes from the last line to the
\* first, skips blank lines and ends at the first line it meets that is a Start
\* or Stop Gateway line (marker); that line sets the status and the event only
\* if the status is still unknown. Every heartbeat line met before sets the
\* status to running, and sets last_heartbeat to the time of the line while
\* last_heartbeat is still None
ScanSystemLog(lines, result, t) ==
  \* the greatest element of a set of line numbers, 0 for the empty set
  LET Newest(S) == IF S = {} THEN 0 ELSE CHOOSE i \in S : \A j \in S : j <= i
  IN
  LET marker == Newest({i \in DOMAIN lines :
                          \/ Search(PATTERN_START_GATEWAY, lines[i])
                          \/ Search(PATTERN_STOP_GATEWAY, lines[i])})
      heartbeats == {i \in DOMAIN lines :
                       i > marker /\ Search(PATTERN_HEARTBEAT, lines[i])}
      timed == Newest({i \in heartbeats : _parse_log_time(lines[i], t) # None})
      last_heartbeat == IF timed = 0 THEN None ELSE _parse_log_time(lines[timed], t)
  IN IF heartbeats # {}
     THEN [result EXCEPT !.gateway_status = "running",
                         !.last_heartbeat = last_heartbeat]
     ELSE IF marker = 0 THEN result
     ELSE IF Search(PATTERN_START_GATEWAY, lines[marker])
     THEN [result EXCEPT !.gateway_status = "running",
                         !.gateway_last_event = <<"Start Gateway">>,
                         !.gateway_last_event_time = _parse_log_time(lines[marker], t)]
     ELSE [result EXCEPT !.gateway_status = "stopped",
                         !.gateway_last_event = <<"Stop Gateway">>,
                         !.gateway_last_event_time = _parse_log_time(lines[marker], t)]

\* BMSLogMonitor.parse_system_log() on the system log of the day, at time t
parse_system_log(file, t) ==
  LET PATTERN_CREATE_THREAD == <<"Create", "Thread">>
  IN
  \* parse_system_log, lines 228-235: the distinct threads of the Create Thread
  \* lines among the last thread_lines lines
  LET ThreadIds(lines) ==
        { lines[i][j + 2] :
            <<i, j>> \in { <<i, j>> \in ((1..Len(lines)) \X (1..3)) :
                            /\ i > Len(lines) - thread_lines
                            /\ j + 2 <= Len(lines[i])
                            /\ SubSeq(lines[i], j, j + 1) = PATTERN_CREATE_THREAD
                            /\ lines[i][j + 2] \in {"Import[1]", "Export[1]"} } }
  IN
  LET result == [gateway_status |-> "unknown", gateway_last_event |-> None,
                 gateway_last_event_time |-> None, last_heartbeat |-> None,
                 active_threads |-> 0]
      lines == _read_log_file(file)
  IN IF lines = << >> THEN result
     ELSE [ScanSystemLog(lines, result, t)
             EXCEPT !.active_threads = Cardinality(ThreadIds(lines))]

\* check_heartbeat_timeout's default timeout_seconds
timeout_seconds == 30

\* check_heartbeat_timeout that takes an absent heartbeat for a fresh one
HeartbeatAbsentIsFresh(last_heartbeat, t) ==
  IF last_heartbeat = None THEN FALSE
  ELSE t - fromisoformat(last_heartbeat) > timeout_seconds

\* BMSLogMonitor.check_heartbeat_timeout(last_heartbeat) at time t
check_heartbeat_timeout(last_heartbeat, t) ==
  IF last_heartbeat = None THEN TRUE
  ELSE t - fromisoformat(last_heartbeat) > timeout_seconds

\* Downgrade that keeps a running status although the heartbeat is stale
DowngradeNever(gateway_status, heartbeat_stale) == gateway_status

\* Downgrade that turns every status into unknown when the heartbeat is stale
DowngradeWhateverStatus(gateway_status, heartbeat_stale) ==
  IF heartbeat_stale THEN "unknown" ELSE gateway_status

\* get_status, lines 410-413: running becomes unknown when the heartbeat is stale
Downgrade(gateway_status, heartbeat_stale) ==
  IF gateway_status = "running" /\ heartbeat_stale THEN "unknown" ELSE gateway_status

\* the position of the first match of PATTERN_CONNECTION_ERROR in the line,
\* "=>" followed by a message; 0 when there is none
ConnectionErrorAt(line) ==
  LET PATTERN_CONNECTION_ERROR == <<"Connection", "Error", "=>">>
  IN
  LET hits == {i \in 1..Len(line) :
                 /\ i + 3 <= Len(line)
                 /\ SubSeq(line, i, i + 2) = PATTERN_CONNECTION_ERROR}
  IN IF hits = {} THEN 0 ELSE CHOOSE i \in hits : \A j \in hits : i <= j

\* the position of the first match of PATTERN_RECONNECT_ERROR in the line:
\* the two words, the database, "=>" and a message; 0 when there is none
ReconnectErrorAt(line) ==
  LET PATTERN_RECONNECT_ERROR == <<"Error", "Reconnect">>
  IN
  LET hits == {i \in 1..Len(line) :
                 /\ i + 4 <= Len(line)
                 /\ SubSeq(line, i, i + 1) = PATTERN_RECONNECT_ERROR
                 /\ line[i + 3] = "=>"}
  IN IF hits = {} THEN 0 ELSE CHOOSE i \in hits : \A j \in hits : i <= j

\* 'LIS' in line or 'HOSxP' in line.upper(): the second test never holds, an
\* upper-cased line has no 'x'; of the words of the model only LIS contains LIS
MentionsLIS(line) == \E i \in DOMAIN line : line[i] = "LIS"

\* 'gateway' in db_info.lower(), for the database names of the model
NamesGateway(db_info) == db_info = "127.0.0.1.lis_gateway"

\* parse_error_log, lines 280-302: a connection error line
OnConnectionError(s, line, timestamp) ==
  LET at == ConnectionErrorAt(line)
      error_msg == SubSeq(line, at + 3, Len(line))
  IN IF at = 0 THEN s
     ELSE IF MentionsLIS(line)
     THEN [s EXCEPT !.hosxp_connected = FALSE, !.hosxp_db_last_error = error_msg,
                    !.last_error_time = timestamp]
     ELSE [s EXCEPT !.gateway_connected = FALSE, !.gateway_db_last_error = error_msg,
                    !.last_error_time = timestamp]

\* parse_error_log, lines 304-324: a reconnect error line
OnReconnectError(s, line, timestamp) ==
  LET at == ReconnectErrorAt(line)
      error_msg == SubSeq(line, at + 4, Len(line))
  IN IF at = 0 THEN s
     ELSE IF NamesGateway(line[at + 2])
     THEN [s EXCEPT !.hosxp_connected = FALSE, !.hosxp_db_last_error = error_msg,
                    !.last_error_time = timestamp]
     ELSE [s EXCEPT !.gateway_connected = FALSE, !.gateway_db_last_error = error_msg,
                    !.last_error_time = timestamp]

\* OnReconnectOk that clears the error texts and keeps the connection flags
ReconnectOkKeepsFlags(s, line) ==
  IF Search(PATTERN_RECONNECT_OK, line)
  THEN [s EXCEPT !.hosxp_db_last_error = None, !.gateway_db_last_error = None]
  ELSE s

\* parse_error_log, lines 326-331: a ReConnect DB OK. line
OnReconnectOk(s, line) ==
  IF Search(PATTERN_RECONNECT_OK, line)
  THEN [s EXCEPT !.hosxp_connected = TRUE, !.gateway_connected = TRUE,
                 !.hosxp_db_last_error = None, !.gateway_db_last_error = None]
  ELSE s

\* the thread errors parse_error_log keeps
thread_errors_max == 5

\* parse_error_log, lines 334-338: the error_info string of a line that matches
\* PATTERN_THREAD_ERROR ("Thread", a thread, an optional "Execute", "Error",
\* "=>" and a message), f"{thread_type}[{thread_id}]: {error_msg[:100]}", as its
\* words; None for a line without a match. The messages of the model are
\* shorter than the 100 characters the slice keeps
thread_error_info(line) ==
  LET MsgAt(i) == IF line[i + 2] = "Execute" THEN i + 5 ELSE i + 4
      hits == {i \in 1..Len(line) :
                 /\ i + 4 <= Len(line)
                 /\ line[i] = "Thread"
                 /\ line[i + 1] \in {"Import[1]", "Export[1]", "Import[2]"}
                 /\ MsgAt(i) <= Len(line)
                 /\ SubSeq(line, MsgAt(i) - 2, MsgAt(i) - 1) = <<"Error", "=>">>}
      at == CHOOSE i \in hits : \A j \in hits : i <= j
  IN IF hits = {} THEN None
     ELSE <<line[at + 1], ":">> \o SubSeq(line, MsgAt(at), Len(line))

\* OnThreadError without the membership test of line 339
ThreadErrorNoDedupe(s, line) ==
  LET error_info == thread_error_info(line)
      appended == Append(s.thread_errors, error_info)
  IN IF error_info = None THEN s
     ELSE [s EXCEPT !.thread_errors =
             IF Len(appended) > thread_errors_max
             THEN SubSeq(appended, Len(appended) - thread_errors_max + 1, Len(appended))
             ELSE appended]

\* parse_error_log, lines 333-344: a thread error line
OnThreadError(s, line) ==
  LET error_info == thread_error_info(line)
      appended == Append(s.thread_errors, error_info)
  IN IF error_info = None THEN s
     ELSE IF \E k \in DOMAIN s.thread_errors : s.thread_errors[k] = error_info THEN s
     ELSE [s EXCEPT !.thread_errors =
             IF Len(appended) > thread_errors_max
             THEN SubSeq(appended, Len(appended) - thread_errors_max + 1, Len(appended))
             ELSE appended]

\* parse_error_log, lines 272-344: the scan from line i to the last line
RECURSIVE ScanErrorLog(_, _, _, _)
ScanErrorLog(lines, i, s, t) ==
  IF i > Len(lines) THEN s
  ELSE IF lines[i] = << >> THEN ScanErrorLog(lines, i + 1, s, t)
  ELSE LET timestamp == _parse_log_time(lines[i], t)
           s1 == OnConnectionError(s, lines[i], timestamp)
           s2 == OnReconnectError(s1, lines[i], timestamp)
           s3 == OnReconnectOk(s2, lines[i])
           s4 == OnThreadError(s3, lines[i])
       IN ScanErrorLog(lines, i + 1, s4, t)

\* BMSLogMonitor.parse_error_log() on the error log of the day, at time t (the
\* host fields are left out)
parse_error_log(file, t) ==
  LET lines == _read_log_file(file)
      s == ScanErrorLog(lines, 1,
                        [hosxp_connected |-> TRUE, gateway_connected |-> TRUE,
                         hosxp_db_last_error |-> None, gateway_db_last_error |-> None,
                         last_error_time |-> None, thread_errors |-> << >>], t)
  IN [hosxp_db_status |-> IF s.hosxp_connected THEN "connected" ELSE "disconnected",
      hosxp_db_last_error |-> s.hosxp_db_last_error,
      gateway_db_status |-> IF s.gateway_connected THEN "connected" ELSE "disconnected",
      gateway_db_last_error |-> s.gateway_db_last_error,
      thread_errors |-> s.thread_errors,
      last_error_time |-> s.last_error_time]

\* get_status, lines 383-405: the statuses after the restart-after-error rule
Reconcile(system_info, error_info) ==
  \* self._parse_log_time(timestamp) of get_status, lines 390-391: its argument is
  \* a timestamp that _parse_log_time built, which starts with the year, so the
  \* pattern of a line's time does not match
  LET ParseLogTimeOfTimestamp(timestamp) == None
  IN
  IF /\ system_info.gateway_status = "running"
     /\ system_info.gateway_last_event = <<"start">>
     /\ error_info.last_error_time # None
     /\ system_info.gateway_last_event_time # None
  THEN LET error_time == ParseLogTimeOfTimestamp(error_info.last_error_time)
           start_time == ParseLogTimeOfTimestamp(system_info.gateway_last_event_time)
       IN IF start_time # None /\ error_time # None
             /\ fromisoformat(start_time) > fromisoformat(error_time)
          THEN [error_info EXCEPT !.hosxp_db_status = "connected",
                                  !.gateway_db_status = "connected",
                                  !.hosxp_db_last_error = None,
                                  !.gateway_db_last_error = None]
          ELSE error_info
  ELSE error_info

\* BMSLogMonitor.get_status() on the two log files of the day, at time t
get_status(system_file, error_file, t) ==
  LET system_info == parse_system_log(system_file, t)
      error_info == Reconcile(system_info, parse_error_log(error_file, t))
      heartbeat_stale == check_heartbeat_timeout(system_info.last_heartbeat, t)
  IN [gateway_status |-> Downgrade(system_info.gateway_status, heartbeat_stale),
      gateway_last_event |-> system_info.gateway_last_event,
      gateway_last_event_time |-> system_info.gateway_last_event_time,
      last_heartbeat |-> system_info.last_heartbeat,
      heartbeat_stale |-> heartbeat_stale,
      hosxp_db_status |-> error_info.hosxp_db_status,
      hosxp_db_last_error |-> error_info.hosxp_db_last_error,
      gateway_db_status |-> error_info.gateway_db_status,
      gateway_db_last_error |-> error_info.gateway_db_last_error,
      active_threads |-> system_info.active_threads,
      thread_errors |-> error_info.thread_errors,
      last_error_time |-> error_info.last_error_time]

(***************************************************************************)
(* get_status on its own: the files and the time are drawn in the initial  *)
(* state and one step reads the status                                     *)
(***************************************************************************)
MaxLogLines == 3

\* the sequences of at most n elements of S
SeqsUpTo(S, n) == UNION { [1..k -> S] : k \in 0..n }

InitLogInputs(system_logs, error_logs) ==
  \* the times of the calls: the later heartbeat of SystemLines is no older
  \* than the timeout at the first and older at the second
  LET StatusTimes == {timeout_seconds + 1, timeout_seconds + 2}
  IN
  /\ now \in StatusTimes
  /\ clock_steps = 0
  /\ os_procs = {}
  /\ next_pid = 1
  /\ monitored_processes = << >>
  /\ prev_process_status = << >>
  /\ process_stopped_time = << >>
  /\ process_stopped_alerted = << >>
  /\ alerts = << >>
  /\ alert_settings = InitialAlertSettings
  /\ thresholds = InitialThresholds
  /\ history_length = ShortHistoryLength
  /\ process_history = << >>
  /\ prev_metrics = << >>
  /\ processes_file = << >>
  /\ down = [n \in Names |-> [first_stopped |-> None, stopped_alerts |-> 0]]
  /\ schedules = << >>
  /\ auto_start_schedules = << >>
  /\ schedules_file = << >>
  /\ auto_start_file = << >>
  /\ sched = [pc |-> "not_started", tick_now |-> 0, snap |-> << >>, idx |-> 1,
              cur |-> NoLocals]
  /\ config_calls = 0
  /\ ret = Ret("init", None, "", 0, None)
  /\ \E sys \in system_logs, err \in error_logs :
        calc = [system_log |-> sys, error_log |-> err, done |-> FALSE, status |-> None,
                error_info |-> None,
                \* BMSLogMonitor.__init__, lines 105-106
                previous_hosxp_db_status |-> "unknown",
                previous_gateway_db_status |-> "unknown",
                changes |-> None,
                \* ProcessMonitor.__init__, lines 224-225
                prev_bms_hosxp_status |-> << >>,
                prev_bms_gateway_status |-> << >>]

InitGatewayLog ==
  \* a file of at most MaxLogLines lines, followed by no further line, by one
  \* line less than _read_log_file reads, or by as many as it reads
  LET SystemLogs ==
        \* lines of a system log: the markers, heartbeats with and without a time,
        \* a thread line, a Stop Gateway without its full stop, a blank line
        LET SystemLines ==
              { <<"00:00:01", ":", "Start", "Gateway.">>,
                <<"00:00:01", ":", "Stop", "Gateway.">>,
                <<"00:00:00", ":", "1------------------", "=", "7">>,
                <<"00:00:01", ":", "1------------------", "=", "7">>,
                <<"1------------------", "=", "7">>,
                <<"00:00:01", ":", "Create", "Thread", "Import[1]">>,
                <<"00:00:01", ":", "Stop", "Gateway">>,
                << >> }
        IN
        \* a line that no pattern of the system log matches
        LET OtherLine == <<"00:00:01", ":", "Created", "Import", "Thread">>
        IN
        { head \o [i \in 1..pad |-> OtherLine] :
            head \in SeqsUpTo(SystemLines, MaxLogLines),
            pad \in {0, max_lines - 1, max_lines} }
  IN
  \* error logs read together with the system log
  LET FewErrorLogs ==
        { << >>,
          << <<"00:00:00", ":", "Init", "LIS", "Connection", "Error", "=>", "refused">> >> }
  IN
  InitLogInputs(SystemLogs, FewErrorLogs)

\* BMSLogMonitor.get_status()
ApplyGetStatus ==
  /\ ~calc.done
  /\ calc' = [calc EXCEPT !.done = TRUE,
                          !.status = get_status(calc.system_log, calc.error_log, now)]
  /\ UNCHANGED <<time_vars, os_vars, monitor_vars, sched_vars, config_calls, ret,
                 settings_vars>>

SpecGatewayLog == InitGatewayLog /\ [][ApplyGetStatus]_vars

\* some of the lines is a Stop Gateway line, none a Start Gateway line, none
\* a heartbeat line
OnlyStopMarker(lines) ==
  /\ \E i \in DOMAIN lines : Search(PATTERN_STOP_GATEWAY, lines[i])
  /\ \A i \in DOMAIN lines :
       /\ ~Search(PATTERN_START_GATEWAY, lines[i])
       /\ ~Search(PATTERN_HEARTBEAT, lines[i])

\* C18 as stated: for a system log whose only marker is a Stop Gateway line and
\* that has no heartbeat line, get_status returns gateway_status 'stopped' and
\* heartbeat_stale true.
C18_StopOnlyLog ==
  (calc.done /\ OnlyStopMarker(calc.system_log))
    => /\ calc.status.gateway_status = "stopped"
       /\ calc.status.heartbeat_stale

\* C18 amended: the same, for a system log whose last max_lines lines, the ones
\* get_status reads, have a Stop Gateway line as their only marker and no
\* heartbeat line.
C18_StopOnlyScanned ==
  (calc.done /\ OnlyStopMarker(_read_log_file(calc.system_log)))
    => /\ calc.status.gateway_status = "stopped"
       /\ calc.status.heartbeat_stale

\* C18 witness: the status of a log that is longer than one line and whose only
\* marker is its Stop Gateway line has been read
C18_Witness ==
  /\ calc.done
  /\ Len(calc.system_log) > MaxLogLines
  /\ OnlyStopMarker(_read_log_file(calc.system_log))
  /\ calc.status.gateway_status = "stopped"
  /\ calc.status.heartbeat_stale
  /\ calc.status.last_heartbeat = None

\* C19: in every status get_status returns, heartbeat_stale implies that
\* gateway_status is not 'running'; a 'running' that parse_system_log derived
\* from the log is returned as 'unknown' whenever the heartbeat is absent or
\* older than timeout_seconds.
C19_StaleNeverRunning ==
  calc.done =>
    LET system_info == parse_system_log(calc.system_log, now)
    IN /\ calc.status.heartbeat_stale => calc.status.gateway_status # "running"
       /\ ( /\ system_info.gateway_status = "running"
            /\ \/ system_info.last_heartbeat = None
               \/ now - fromisoformat(system_info.last_heartbeat) > timeout_seconds )
            => calc.status.gateway_status = "unknown"

\* C19 witness: the log says running, by a heartbeat that is older than the
\* timeout, and the status returned is unknown and stale
C19_Witness ==
  /\ calc.done
  /\ parse_system_log(calc.system_log, now).gateway_status = "running"
  /\ calc.status.last_heartbeat # None
  /\ calc.status.heartbeat_stale
  /\ calc.status.gateway_status = "unknown"

(***************************************************************************)
(* parse_error_log on its own                                              *)
(***************************************************************************)

MaxExtraLines == 2

InitErrorLog ==
  \* error logs with thread errors: the first lines of a log with one more
  \* distinct thread error than parse_error_log keeps, followed by at most
  \* MaxExtraLines lines that repeat them, with or without Execute, or miss
  \* the pattern
  LET ThreadLogs ==
        LET ThreadLines ==
              << <<"00:00:00", ":", "Thread", "Import[1]", "Error", "=>", "e1">>,
                 <<"00:00:00", ":", "Thread", "Export[1]", "Error", "=>", "e1">>,
                 <<"00:00:00", ":", "Thread", "Import[2]", "Error", "=>", "e1">>,
                 <<"00:00:01", ":", "Thread", "Import[1]", "Error", "=>", "e2">>,
                 <<"00:00:01", ":", "Thread", "Export[1]", "Execute", "Error", "=>", "e2">>,
                 <<"00:00:01", ":", "Thread", "Import[2]", "Error", "=>", "e2", "e1">> >>
            ExtraLines ==
              { ThreadLines[k] : k \in DOMAIN ThreadLines }
                \cup { <<"00:00:01", ":", "Thread", "Import[1]", "Execute", "Error", "=>", "e1">>,
                       <<"00:00:01", ":", "Thread", "Import[1]", "Error", "=>">> }
        IN { SubSeq(ThreadLines, 1, n) \o tail :
               n \in 0..Len(ThreadLines), tail \in SeqsUpTo(ExtraLines, MaxExtraLines) }
  IN
  LET ErrorLogs ==
        \* lines of an error log: connection errors with and without LIS, one without
        \* a message, reconnect errors of the two databases, the reconnect lines, a
        \* connection error whose message is ReConnect DB OK., a blank line
        LET ErrorLines ==
              { <<"00:00:00", ":", "Init", "LIS", "Connection", "Error", "=>", "refused">>,
                <<"00:00:00", ":", "Connection", "Error", "=>", "refused">>,
                <<"00:00:00", ":", "Connection", "Error", "=>">>,
                <<"00:00:01", ":", "Error", "Reconnect", "127.0.0.1.lis_gateway", "=>", "timeout">>,
                <<"00:00:01", ":", "Error", "Reconnect", "127.0.0.1.hosxp", "=>", "timeout">>,
                <<"00:00:01", ":", "ReConnect", "DB", "...">>,
                <<"00:00:01", ":", "ReConnect", "DB", "OK.">>,
                <<"Connection", "Error", "=>", "ReConnect", "DB", "OK.">>,
                << >> }
        IN
        SeqsUpTo(ErrorLines, MaxLogLines)
  IN
  InitLogInputs({<< >>}, ErrorLogs \cup ThreadLogs)

\* BMSLogMonitor.parse_error_log()
ApplyParseErrorLog ==
  /\ ~calc.done
  /\ calc' = [calc EXCEPT !.done = TRUE,
                          !.error_info = parse_error_log(calc.error_log, now)]
  /\ UNCHANGED <<time_vars, os_vars, monitor_vars, sched_vars, config_calls, ret,
                 settings_vars>>

SpecErrorLog == InitErrorLog /\ [][ApplyParseErrorLog]_vars

\* every error line of the log has a ReConnect DB OK. line after it
EveryErrorReconnected(lines) ==
  \* the line is a connection error or a reconnect error for parse_error_log
  LET IsErrorLine(line) == ConnectionErrorAt(line) # 0 \/ ReconnectErrorAt(line) # 0
  IN
  \A i \in DOMAIN lines :
    IsErrorLine(lines[i])
      => \E j \in DOMAIN lines : j > i /\ Search(PATTERN_RECONNECT_OK, lines[j])

\* C20: for an error log in which every connection error or reconnect error
\* line is followed later by a ReConnect DB OK. line, parse_error_log returns
\* both database statuses 'connected' and both last-error texts None.
C20_ReconnectedLog ==
  (calc.done /\ EveryErrorReconnected(calc.error_log))
    => /\ calc.error_info.hosxp_db_status = "connected"
       /\ calc.error_info.gateway_db_status = "connected"
       /\ calc.error_info.hosxp_db_last_error = None
       /\ calc.error_info.gateway_db_last_error = None

\* C20 witness: an error log with an error for each database, both before a
\* ReConnect DB OK. line, has been parsed: the time of the last error is
\* recorded, the statuses are connected
C20_Witness ==
  /\ calc.done
  /\ EveryErrorReconnected(calc.error_log)
  /\ \E i, j \in DOMAIN calc.error_log :
       /\ i < j
       /\ ConnectionErrorAt(calc.error_log[i]) # 0 /\ MentionsLIS(calc.error_log[i])
       /\ ReconnectErrorAt(calc.error_log[j]) # 0
       /\ ~NamesGateway(calc.error_log[j][ReconnectErrorAt(calc.error_log[j]) + 2])
  /\ calc.error_info.last_error_time # None
  /\ calc.error_info.hosxp_db_status = "connected"
  /\ calc.error_info.gateway_db_status = "connected"


\* C21 as stated: when the newest lifecycle event of the system log is a Start
\* Gateway whose time is strictly later than the time of the last DB error of
\* the error log, get_status returns both DB statuses 'connected' and both
\* last-error texts None.
C21_RestartAfterError ==
  (/\ calc.done
   /\ calc.status.gateway_last_event = <<"Start Gateway">>
   /\ calc.status.gateway_last_event_time # None
   /\ calc.status.last_error_time # None
   /\ fromisoformat(calc.status.gateway_last_event_time)
        > fromisoformat(calc.status.last_error_time))
  => /\ calc.status.hosxp_db_status = "connected"
     /\ calc.status.gateway_db_status = "connected"
     /\ calc.status.hosxp_db_last_error = None
     /\ calc.status.gateway_db_last_error = None


SpecDisk ==
  /\ InitStarted(ShortHistoryLength)
  /\ [][\/ \E d \in {1} : Advance(d)
        \/ \E o \in {"ok", "io_denied"} : GetAllProcesses(OutcomesOf(o))
        \/ \E p \in os_procs, io \in IoSteps : OSDiskIo(p, io)
        \/ \E p \in os_procs : OSExit(p)
        \/ OSStart(BMS_EXE)
        \/ ApiRemoveProcess(BMS_EXE, None)
        \/ ApiAddProcess(BMS_EXE)]_vars

\* C23: a tick that samples the live process of p and reads its disk counters
\* stores them with the time of the sample under the pid; the disk rates of the
\* sample are 0 when nothing was stored under the pid, and otherwise the growth
\* of each counter since the stored one, in MB, divided by the time since the
\* stored time (0 when no time has passed).
C23_DiskRates ==
  [][\A p \in Names :
       (/\ DictHas(monitored_processes, p)
        /\ GetAllProcesses(OutcomesOf("ok"))
        /\ is_running(os_procs, DictGet(monitored_processes', p).pid))
       => LET pid == DictGet(monitored_processes', p).pid
              io_counters == CHOOSE q \in os_procs : q.pid = pid
              sample == get_process_history(p)'[Len(get_process_history(p)')].metrics
              first == pid \notin DOMAIN prev_metrics
              elapsed == IF first THEN 0 ELSE now - prev_metrics[pid].time
          IN /\ prev_metrics'[pid] =
                  [io_counters |-> [read_bytes |-> io_counters.read_bytes,
                                    write_bytes |-> io_counters.write_bytes],
                   time |-> now]
             /\ (first \/ elapsed = 0)
                  => sample.disk_read_mb = 0 /\ sample.disk_write_mb = 0
             /\ (~first /\ elapsed > 0)
                  => /\ sample.disk_read_mb * elapsed * BytesPerMB
                          = io_counters.read_bytes - prev_metrics[pid].io_counters.read_bytes
                     /\ sample.disk_write_mb * elapsed * BytesPerMB
                          = io_counters.write_bytes
                              - prev_metrics[pid].io_counters.write_bytes]_vars

\* C23 witness: the second sample of bms, two seconds after the first, has
\* found 6 MB read and 600 MB written since the first: 3 and 300 MB a second
C23_Witness ==
  /\ Len(get_process_history(BMS_EXE)) > 0
  /\ get_process_history(BMS_EXE)[Len(get_process_history(BMS_EXE))].metrics.disk_read_mb = 3
  /\ get_process_history(BMS_EXE)[Len(get_process_history(BMS_EXE))].metrics.disk_write_mb = 300
  /\ DictHas(monitored_processes, BMS_EXE)
  /\ DictGet(monitored_processes, BMS_EXE).pid \in DOMAIN prev_metrics
  /\ prev_metrics[DictGet(monitored_processes, BMS_EXE).pid].time = now

(***************************************************************************)
(* The database status changes: the gateway writes its error log, and the  *)
(* log monitor and the process monitor compare the status they read with   *)
(* the one they stored                                                     *)
(***************************************************************************)
\* ChangeOf that reports the first observation as a change
ChangeOfReportsFirst(previous, current) ==
  IF current # previous THEN <<previous, current>> ELSE None

\* get_status_changes, lines 448-450 and 454-456: the entry of one database in
\* the changes, None for no entry
ChangeOf(previous, current) ==
  IF current # previous /\ previous # "unknown" THEN <<previous, current>> ELSE None

\* BMSLogMonitor.get_status_changes()
GetStatusChanges ==
  \E current \in {get_status(calc.system_log, calc.error_log, now)} :
     /\ calc' = [calc EXCEPT
                   !.changes =
                     [hosxp_db |-> ChangeOf(calc.previous_hosxp_db_status,
                                            current.hosxp_db_status),
                      gateway_db |-> ChangeOf(calc.previous_gateway_db_status,
                                              current.gateway_db_status)],
                   !.previous_hosxp_db_status =
                     IF current.hosxp_db_status # calc.previous_hosxp_db_status
                     THEN current.hosxp_db_status ELSE @,
                   !.previous_gateway_db_status =
                     IF current.gateway_db_status # calc.previous_gateway_db_status
                     THEN current.gateway_db_status ELSE @]
     /\ UNCHANGED <<time_vars, os_vars, monitor_vars, sched_vars, config_calls, ret,
                    settings_vars>>

\* get_bms_status that alerts on the status of a database, not on its change
GetBmsStatusLevelTriggered(process_name) ==
  \E status \in {get_status(calc.system_log, calc.error_log, now)} :
  LET Get(d) == IF process_name \in DOMAIN d THEN d[process_name] ELSE "unknown"
      \* lines 961-975 and 978-992: the alerts of one database
      DbAlerts(prev, current, db) ==
        IF prev # "unknown"
        THEN IF current = "disconnected"
             THEN << [alert_type |-> <<"BMS_DB", db, "DISCONNECTED">>,
                      process_name |-> process_name, timestamp |-> now,
                      value |-> 0, threshold |-> None] >>
             ELSE IF current = "connected" /\ prev = "disconnected"
             THEN << [alert_type |-> <<"BMS_DB", db, "RECONNECTED">>,
                      process_name |-> process_name, timestamp |-> now,
                      value |-> 0, threshold |-> None] >>
             ELSE << >>
        ELSE << >>
      new_alerts == DbAlerts(Get(calc.prev_bms_hosxp_status), status.hosxp_db_status, "HOSXP")
                      \o DbAlerts(Get(calc.prev_bms_gateway_status),
                                  status.gateway_db_status, "GATEWAY")
      RECURSIVE AppendAll(_, _)
      AppendAll(q, xs) == IF xs = << >> THEN q
                          ELSE AppendAll(DequeAppend(q, Head(xs)), Tail(xs))
  IN /\ is_bms_process(process_name)
     /\ alerts' = AppendAll(alerts, new_alerts)
     /\ calc' = [calc EXCEPT
                   !.status = status,
                   !.prev_bms_hosxp_status = With(@, process_name, status.hosxp_db_status),
                   !.prev_bms_gateway_status =
                     With(@, process_name, status.gateway_db_status)]
     /\ UNCHANGED <<time_vars, os_vars, monitored_processes, prev_process_status,
                    process_stopped_time, process_stopped_alerted, alert_settings,
                    processes_file, down, process_history, prev_metrics, sched_vars,
                    config_calls, ret, settings_vars>>

\* ProcessMonitor.get_bms_status(process_name) with _check_bms_status_changes
\* and _create_bms_db_alert (the hospital fields of the alert are left out)
GetBmsStatus(process_name) ==
  \E status \in {get_status(calc.system_log, calc.error_log, now)} :
  LET Get(d) == IF process_name \in DOMAIN d THEN d[process_name] ELSE "unknown"
      \* lines 961-975 and 978-992: the alerts of one database
      DbAlerts(prev, current, db) ==
        IF current # prev /\ prev # "unknown"
        THEN IF current = "disconnected"
             THEN << [alert_type |-> <<"BMS_DB", db, "DISCONNECTED">>,
                      process_name |-> process_name, timestamp |-> now,
                      value |-> 0, threshold |-> None] >>
             ELSE IF current = "connected" /\ prev = "disconnected"
             THEN << [alert_type |-> <<"BMS_DB", db, "RECONNECTED">>,
                      process_name |-> process_name, timestamp |-> now,
                      value |-> 0, threshold |-> None] >>
             ELSE << >>
        ELSE << >>
      new_alerts == DbAlerts(Get(calc.prev_bms_hosxp_status), status.hosxp_db_status, "HOSXP")
                      \o DbAlerts(Get(calc.prev_bms_gateway_status),
                                  status.gateway_db_status, "GATEWAY")
      RECURSIVE AppendAll(_, _)
      AppendAll(q, xs) == IF xs = << >> THEN q
                          ELSE AppendAll(DequeAppend(q, Head(xs)), Tail(xs))
  IN /\ is_bms_process(process_name)
     /\ alerts' = AppendAll(alerts, new_alerts)
     /\ calc' = [calc EXCEPT
                   !.status = status,
                   !.prev_bms_hosxp_status = With(@, process_name, status.hosxp_db_status),
                   !.prev_bms_gateway_status =
                     With(@, process_name, status.gateway_db_status)]
     /\ UNCHANGED <<time_vars, os_vars, monitored_processes, prev_process_status,
                    process_stopped_time, process_stopped_alerted, alert_settings,
                    processes_file, down, process_history, prev_metrics, sched_vars,
                    config_calls, ret, settings_vars>>

\* the gateway appends a line to the error log of the day: a connection error
\* of each database or a successful reconnect
WriteErrorLog ==
  /\ Len(calc.error_log) < MaxLogLines
  /\ \E line \in { <<"00:00:00", ":", "Init", "LIS", "Connection", "Error", "=>", "refused">>,
                   <<"00:00:00", ":", "Connection", "Error", "=>", "refused">>,
                   <<"00:00:01", ":", "ReConnect", "DB", "OK.">> } :
        calc' = [calc EXCEPT !.error_log = Append(@, line)]
  /\ UNCHANGED <<time_vars, os_vars, monitor_vars, sched_vars, config_calls, ret,
                 settings_vars>>

SpecStatusChanges ==
  /\ InitLogInputs({<< >>}, {<< >>})
  /\ [][\/ WriteErrorLog
        \/ GetStatusChanges
        \/ GetBmsStatus(BMS_EXE)]_vars

\* C24: get_status_changes reports a change of a database only when the status
\* stored for it was not 'unknown', and then as the pair of the stored and the
\* current status; get_bms_status appends alerts only when the status stored
\* for some database was not 'unknown' and differs from the current one; both
\* leave the current status stored whenever it differs from the stored one.
C24_FirstObservationNoChange ==
  [][LET current == get_status(calc.system_log, calc.error_log, now)
         prev_bms_hosxp == IF BMS_EXE \in DOMAIN calc.prev_bms_hosxp_status
                           THEN calc.prev_bms_hosxp_status[BMS_EXE] ELSE "unknown"
         prev_bms_gateway == IF BMS_EXE \in DOMAIN calc.prev_bms_gateway_status
                             THEN calc.prev_bms_gateway_status[BMS_EXE] ELSE "unknown"
     IN /\ (calc'.error_log = calc.error_log /\ alerts' = alerts /\ GetStatusChanges)
           => /\ calc'.changes.hosxp_db # None
                   => /\ calc.previous_hosxp_db_status # "unknown"
                      /\ calc'.changes.hosxp_db
                           = <<calc.previous_hosxp_db_status, current.hosxp_db_status>>
              /\ calc'.changes.gateway_db # None
                   => /\ calc.previous_gateway_db_status # "unknown"
                      /\ calc'.changes.gateway_db
                           = <<calc.previous_gateway_db_status, current.gateway_db_status>>
              /\ calc'.previous_hosxp_db_status = current.hosxp_db_status
              /\ calc'.previous_gateway_db_status = current.gateway_db_status
        /\ (calc'.error_log = calc.error_log /\ GetBmsStatus(BMS_EXE))
           => /\ alerts' # alerts
                   => \/ prev_bms_hosxp \notin {"unknown", current.hosxp_db_status}
                      \/ prev_bms_gateway \notin {"unknown", current.gateway_db_status}
              /\ \A k \in (Len(alerts) + 1)..Len(alerts') :
                   /\ alerts'[k].alert_type[2] = "HOSXP" => prev_bms_hosxp # "unknown"
                   /\ alerts'[k].alert_type[2] = "GATEWAY" => prev_bms_gateway # "unknown"
              /\ calc'.prev_bms_hosxp_status[BMS_EXE] = current.hosxp_db_status
              /\ calc'.prev_bms_gateway_status[BMS_EXE] = current.gateway_db_status]_vars

\* C24 witness: after a first observation that reported nothing, the log
\* monitor has reported HOSxP going from connected to disconnected and the
\* process monitor has alerted on it, while the gateway database, never seen
\* to change, has no entry and no alert
C24_Witness ==
  /\ calc.changes # None
  /\ calc.changes.hosxp_db = <<"connected", "disconnected">>
  /\ calc.changes.gateway_db = None
  /\ calc.previous_hosxp_db_status = "disconnected"
  /\ calc.previous_gateway_db_status = "connected"
  /\ Len(alerts) = 1
  /\ alerts[1].alert_type = <<"BMS_DB", "HOSXP", "DISCONNECTED">>
  /\ calc.prev_bms_hosxp_status = (BMS_EXE :> "disconnected")

(***************************************************************************)
(* The scheduler with stop(): the task is cancelled where it is suspended  *)
(***************************************************************************)
\* RestartScheduler.stop() (lines 223-232) while the task exists: task.cancel()
\* raises CancelledError in the task at the await it is suspended at. At the
\* sleep of _scheduler_loop the loop's except clause breaks; at the sleeps of
\* _restart_process and _start_process the except Exception clauses (lines
\* 447, 390, 290, 335) do not catch it, CancelledError being a BaseException,
\* so it leaves the tick and the loop's except clause breaks
SchedulerStop ==
  /\ sched.pc \in {"sleep", "restart_kill_wait", "restart_spawn_wait", "auto_spawn_wait"}
  /\ sched' = [sched EXCEPT !.pc = "stopped", !.snap = << >>, !.idx = 1, !.cur = NoLocals]
  /\ ret' = Ret("stop", None, sched.pc, 0, None)
  /\ UNCHANGED <<time_vars, os_vars, monitor_vars, schedules, auto_start_schedules,
                 schedules_file, auto_start_file, config_calls, calc, settings_vars>>

SpecSchedulerStop == Init /\ [][SchedulerSystemNext \/ SchedulerStop]_vars

\* C25: when stop() is called while a restart action has killed the process
\* and has not yet spawned it, the scheduler does not end with the process
\* missing and the entry's next_restart where it was: the process of the
\* program path runs or next_restart has advanced.
C25_StopFinishesTick ==
  [][(sched.pc = "restart_kill_wait" /\ SchedulerStop)
       => \/ /\ CanSpawn(sched.cur.program_path)
             /\ \E p \in os_procs' : p.name = ExeName(sched.cur.program_path)
          \/ /\ DictHas(schedules', CurItem.key)
             /\ DictGet(schedules', CurItem.key).next_restart
                  # CurItem.value.next_restart]_vars

(***************************************************************************)
(* Failures within a tick: the scheduler walks a table loaded from disk in *)
(* which the daily restart of bms comes before the entry a configuration   *)
(* call adds for app; while the scheduler sleeps between its ticks, the    *)
(* monitor samples bms and app, either of which psutil can report gone or  *)
(* inaccessible                                                            *)
(***************************************************************************)
\* RestartScheduler.__init__ with a saved table that holds the daily restart of
\* bms and no saved auto-start table
InitIsolation ==
  /\ InitConfig
  /\ auto_start_schedules = << >>
  /\ schedules # << >>
  /\ schedules[1].value.type = "daily"

SpecIsolation ==
  /\ InitIsolation
  /\ [][\/ \E d \in {SecondsPerMinute} : Advance(d)
        \/ OSStart(BMS_EXE)
        \/ \E path \in ProgramPaths(APP_EXE) :
             update_schedule(APP_EXE, HOSTNAME,
                             Sched("interval", <<1>>, <<0>>, None, TRUE), path)
        \/ SchedulerStart
        \/ BeginCheckSchedules
        \/ CheckSchedule(0)
        \/ KillWaitDone
        \/ RestartSpawn
        \/ RestartRegister
        \/ BeginCheckAutoStart
        \/ EndTick
        \/ sched.pc = "sleep" /\ ApiAddProcess(BMS_EXE)
        \/ \E outcomes \in [Names -> SampleOutcomes] :
             /\ sched.pc = "sleep"
             /\ Len(alerts) <= MaxAlertsBeforeTick
             /\ GetAllProcesses(outcomes)]_vars

C27_SpawnFailureIsFailure ==
  [][/\ (sched.pc = "restart_spawn" /\ ~CanSpawn(sched.cur.program_path) /\ RestartSpawn)
          => /\ ret'.val = <<FALSE>>
             /\ UNCHANGED <<os_procs, monitored_processes>>
             /\ sched'.snap[sched.idx].value.next_restart
                  = _calculate_next_restart(CurItem.value, sched.tick_now)
     /\ (/\ sched.pc = "auto_scan"
         /\ sched.idx <= Len(sched.snap)
         /\ AutoStartIsDue(CurItem.value, sched.tick_now)
         /\ ~_is_process_running(os_procs, CurItem.value.process_name)
         /\ ~CanSpawn(StripQuotes(CurItem.value.program_path))
         /\ CheckAutoStart)
          => /\ ret'.val = <<FALSE>>
             /\ UNCHANGED <<os_procs, monitored_processes>>
             /\ sched'.snap[sched.idx].value.next_check
                  = _calculate_next_check(CurItem.value, sched.tick_now)]_vars

\* C28 as stated: whenever the status get_status returns has heartbeat_stale,
\* its gateway_status is 'unknown'.
C28_StaleForcesUnknown ==
  (calc.done /\ calc.status.heartbeat_stale) => calc.status.gateway_status = "unknown"

\* C28, amended: with a stale heartbeat get_status returns 'unknown' for a
\* status that parse_system_log derived as 'running' or 'unknown', and
\* 'stopped' for one it derived as 'stopped'; with a fresh heartbeat it
\* returns the derived status.
C28_StaleDowngradesRunningOnly ==
  calc.done =>
    LET derived == parse_system_log(calc.system_log, now).gateway_status
    IN /\ derived \in {"running", "stopped", "unknown"}
       /\ calc.status.heartbeat_stale
            => calc.status.gateway_status
                 = IF derived = "stopped" THEN "stopped" ELSE "unknown"
       /\ ~calc.status.heartbeat_stale => calc.status.gateway_status = derived

\* C28 witness: a log with a heartbeat line and a Stop Gateway line after it:
\* the status returned is stale and stopped
C28_Witness ==
  /\ calc.done
  /\ \E i \in DOMAIN calc.system_log : Search(PATTERN_HEARTBEAT, calc.system_log[i])
  /\ calc.status.heartbeat_stale
  /\ calc.status.gateway_last_event = <<"Stop Gateway">>
  /\ calc.status.gateway_status = "stopped"

\* C29: whenever the lines parse_system_log scans contain a Start Gateway or a
\* Stop Gateway line, it returns the kind of the newest such line as
\* gateway_last_event, and gateway_status 'running' when that line is a Start
\* Gateway line and 'stopped' when it is a Stop Gateway line, whether or not
\* heartbeat lines follow it.
C29_NewestMarkerWins ==
  calc.done =>
    LET lines == _read_log_file(calc.system_log)
        markers == {i \in DOMAIN lines : \/ Search(PATTERN_START_GATEWAY, lines[i])
                                         \/ Search(PATTERN_STOP_GATEWAY, lines[i])}
        newest == CHOOSE i \in markers : \A j \in markers : j <= i
        system_info == parse_system_log(calc.system_log, now)
    IN markers # {}
         => IF Search(PATTERN_START_GATEWAY, lines[newest])
            THEN /\ system_info.gateway_last_event = <<"Start Gateway">>
                 /\ system_info.gateway_status = "running"
            ELSE /\ system_info.gateway_last_event = <<"Stop Gateway">>
                 /\ system_info.gateway_status = "stopped"


(***************************************************************************)
(* The order of the steps of a scheduled restart                           *)
(***************************************************************************)
\* C30: inside a scheduled restart the kills come first: the step that kills
\* the OS processes of the entry's name spawns nothing and registers nothing,
\* and no later step of the restart removes an OS process; the spawn is made
\* only from a program path that exists on disk, after the kills, and adds
\* exactly the new process; add_process is reached only after that spawn, and
\* a restart whose spawn is skipped ends with the OS process table and the
\* monitor untouched.
C30_RestartOrdering ==
  [][/\ ( /\ sched.pc = "restart_scan" /\ sched'.pc \in {"restart_kill_wait", "restart_spawn"} )
        => /\ os_procs' = {p \in os_procs : p.name # sched'.cur.process_name}
           /\ next_pid' = next_pid
           /\ monitored_processes' = monitored_processes
           /\ (sched'.pc = "restart_kill_wait") <=> (os_procs' # os_procs)
     /\ ( /\ sched.pc \in {"restart_kill_wait", "restart_spawn", "restart_spawn_wait"}
          /\ sched' # sched )
        => os_procs \subseteq os_procs'
     /\ ( sched'.pc = "restart_spawn_wait" /\ sched.pc # "restart_spawn_wait" )
        => /\ sched.pc = "restart_spawn"
           /\ \E n \in Names : sched.cur.program_path = ExePath(n)
           /\ \E p \in os_procs' \ os_procs :
                /\ p.pid = next_pid
                /\ p.name = ExeName(sched.cur.program_path)
                /\ os_procs' = os_procs \cup {p}
           /\ monitored_processes' = monitored_processes
     /\ ( /\ sched.pc \in {"restart_scan", "restart_kill_wait", "restart_spawn", "restart_spawn_wait"}
          /\ monitored_processes' # monitored_processes )
        => /\ sched.pc = "restart_spawn_wait"
           /\ \E n \in Names : sched.cur.program_path = ExePath(n)
           /\ DictHas(monitored_processes', sched.cur.process_name)
     /\ ( sched.pc = "restart_spawn" /\ sched'.pc = "restart_scan" )
        => /\ ~\E n \in Names : sched.cur.program_path = ExePath(n)
           /\ os_procs' = os_procs
           /\ next_pid' = next_pid
           /\ monitored_processes' = monitored_processes]_vars

\* a restart has run to its end: the old process of the entry was killed, a
\* new one was spawned from the program path and then registered with the
\* monitor under the new pid
C30_Witness ==
  /\ ret.op = "restart_done"
  /\ ret.val = <<TRUE>>
  /\ DictHas(monitored_processes, DoneItem.value.process_name)
  /\ DictGet(monitored_processes, DoneItem.value.process_name).pid > 1
  /\ \E p \in os_procs : /\ p.name = DoneItem.value.process_name
                         /\ p.pid = DictGet(monitored_processes, DoneItem.value.process_name).pid

(***************************************************************************)
(* Registration is ended by remove_process only                            *)
(***************************************************************************)
\* C31: a registered name leaves monitored_processes only on a step on which
\* remove_process returns True for it (the name is registered and the pid
\* given, if any, is the tracked one); a tick that finds the tracked process
\* of a registered name dead and no process to re-acquire keeps the name
\* registered, records it as stopped and reports it with status 'stopped'.
C31_NoImplicitDrop ==
  [][\A n \in Names :
       /\ ( DictHas(monitored_processes, n) /\ ~DictHas(monitored_processes', n) )
          => \E pid \in {None} \cup {<<i>> : i \in 1..MaxPid} :
               /\ ApiRemoveProcess(n, pid)
               /\ pid # None => pid[1] = DictGet(monitored_processes, n).pid
       /\ ( /\ DictHas(monitored_processes, n)
            /\ ~is_running(os_procs, DictGet(monitored_processes, n).pid)
            /\ ~\E p \in os_procs : Lower(p.name) = Lower(n) )
          => \A outcomes \in [Names -> SampleOutcomes] :
               GetAllProcesses(outcomes)
                 => /\ DictHas(monitored_processes', n)
                    /\ DictGet(monitored_processes', n) = DictGet(monitored_processes, n)
                    /\ GetOr(prev_process_status', n, "") = "stopped"
                    /\ LET infos == GetAllFrom(MonitorState, DictKeys(monitored_processes),
                                               outcomes, now, << >>).res
                       IN \E i \in DOMAIN infos : infos[i] = <<n, "stopped">>]_vars

\* a registered process has been down long enough to be alerted as stopped
\* and is still registered, under its last pid, with nothing to re-acquire
C31_Witness ==
  \E n \in Names :
    /\ DictHas(monitored_processes, n)
    /\ GetOr(prev_process_status, n, "") = "stopped"
    /\ n \in DOMAIN process_stopped_alerted
    /\ ~\E p \in os_procs : Lower(p.name) = Lower(n)
    /\ \E i \in DOMAIN alerts :
         alerts[i].alert_type = "PROCESS_STOPPED" /\ alerts[i].process_name = n

(***************************************************************************)
(* The down-duration of the alert settings the monitor is constructed with *)
(***************************************************************************)
\* C32: while the alert settings are those of ProcessMonitor.__init__ (no
\* update_alert_settings call has been made), a PROCESS_STOPPED alert for p is
\* appended only on a tick at which p has been observed down for at least
\* 5 minutes.
C32_InitialSettingsFiveMinutes ==
  [][\A p \in Names :
       ( /\ alert_settings = InitialAlertSettings
         /\ StoppedAlerts(alerts', p) > StoppedAlerts(alerts, p) )
       => /\ down'[p].first_stopped # None
          /\ now - down'[p].first_stopped[1] >= 5 * SecondsPerMinute]_vars

(***************************************************************************)
(* Recoveries a tick observes after add_process was called between ticks   *)
(***************************************************************************)
\* C33: whenever a tick reports p as running and the observation of p before
\* it was stopped, that tick appends a PROCESS_STARTED alert for p, whoever
\* registered the new process of p and whenever. (An alert that the tick
\* before appended, when it re-acquired p and psutil then failed to sample
\* it, is accepted as the announcement.)
C33_EveryRecoveryAnnounced ==
  [][\A p \in Names :
       ( /\ GetOr(prev_process_status, p, "") = "stopped"
         /\ GetOr(prev_process_status', p, "") = "running" )
       => \/ StartedAlerts(alerts', p) = StartedAlerts(alerts, p) + 1
          \/ \E i \in DOMAIN alerts :
               /\ alerts[i].process_name = p
               /\ alerts[i].alert_type = "PROCESS_STARTED"
               /\ \A j \in DOMAIN alerts : j > i => alerts[j].process_name # p]_vars

(***************************************************************************)
(* Configuration calls while a tick is suspended inside a restart: the     *)
(* scheduler starts with a saved table of two restart entries of app (for  *)
(* two hostnames), both due after one second                               *)
(***************************************************************************)
\* RestartScheduler.__init__ (lines 24-33) with the table an earlier run saved
InitSavedSchedules ==
  LET Saved(hostname) ==
        [key |-> ScheduleKey(APP_EXE, hostname),
         value |-> RestartEntry(APP_EXE, hostname,
                                Sched("interval", None, <<1>>, None, TRUE),
                                ExePath(APP_EXE), 0)]
  IN
  /\ now = 0
  /\ clock_steps = 0
  /\ os_procs = {}
  /\ next_pid = 1
  /\ monitored_processes = << >>
  /\ prev_process_status = << >>
  /\ process_stopped_time = << >>
  /\ process_stopped_alerted = << >>
  /\ alerts = << >>
  /\ alert_settings = InitialAlertSettings
  /\ thresholds = InitialThresholds
  /\ history_length = ShortHistoryLength
  /\ process_history = << >>
  /\ prev_metrics = << >>
  /\ processes_file = << >>
  /\ down = [n \in Names |-> [first_stopped |-> None, stopped_alerts |-> 0]]
  /\ schedules = <<Saved(HOSTNAME), Saved(<<"g">>)>>
  /\ auto_start_schedules = << >>
  /\ schedules_file = schedules
  /\ auto_start_file = << >>
  /\ sched = [pc |-> "not_started", tick_now |-> 0, snap |-> << >>, idx |-> 1,
              cur |-> NoLocals]
  /\ config_calls = 0
  /\ ret = Ret("init", None, "", 0, None)
  /\ calc = << >>

SpecConcurrentConfig ==
  /\ InitSavedSchedules
  /\ [][\/ \E d \in TimeSteps : Advance(d)
        \/ OSStart(APP_EXE)
        \/ \E i \in DOMAIN schedules, sc \in ScheduleInputs :
             \E path \in ProgramPaths(APP_EXE) :
               update_schedule(APP_EXE, schedules[i].value.hostname, sc, path)
        \/ SchedulerStart
        \/ BeginCheckSchedules
        \/ CheckSchedule(0)
        \/ KillWaitDone
        \/ RestartSpawn
        \/ RestartRegister
        \/ BeginCheckAutoStart
        \/ EndTick]_vars

\* C34: the step of a tick that begins the restart of an entry (its kills, or
\* its spawn when nothing is to be killed) is taken only while the schedules
\* table holds the entry's key with enabled true and a next_restart that is
\* not None and not later than the tick time; the step of a tick that spawns
\* for an auto-start entry, likewise for the auto-start table and next_check.
C34_NoPrematureAction ==
  [][/\ ( /\ sched.pc = "restart_scan"
          /\ sched'.pc \in {"restart_kill_wait", "restart_spawn"} )
        => /\ DictHas(schedules, CurItem.key)
           /\ DictGet(schedules, CurItem.key).enabled
           /\ DictGet(schedules, CurItem.key).next_restart # None
           /\ sched.tick_now >= fromisoformat(DictGet(schedules, CurItem.key).next_restart)
     /\ ( sched.pc = "auto_scan" /\ sched'.pc = "auto_spawn_wait" )
        => /\ DictHas(auto_start_schedules, CurItem.key)
           /\ DictGet(auto_start_schedules, CurItem.key).enabled
           /\ DictGet(auto_start_schedules, CurItem.key).next_check # None
           /\ sched.tick_now
                >= fromisoformat(DictGet(auto_start_schedules, CurItem.key).next_check)]_vars

\* C35: when a tick completes the restart of an entry whose key a
\* configuration call rebound or deleted while the tick was suspended, the
\* step leaves the schedules table as update_schedule wrote it and saves that
\* table: a deleted key is not stored again, and the last_restart and
\* next_restart of a replaced entry are not those the tick computed.
C35_NoLostUpdate ==
  [][( /\ sched.pc \in {"restart_spawn", "restart_spawn_wait"}
       /\ sched'.pc = "restart_scan"
       /\ ~CurItem.live )
     => /\ schedules' = schedules
        /\ schedules_file' = schedules
        /\ ~DictHas(schedules, CurItem.key) => ~DictHas(schedules', CurItem.key)
        /\ DictHas(schedules, CurItem.key)
             => /\ DictGet(schedules', CurItem.key).last_restart
                     = DictGet(schedules, CurItem.key).last_restart
                /\ DictGet(schedules', CurItem.key).next_restart
                     = DictGet(schedules, CurItem.key).next_restart]_vars

\* a restart has completed whose entry was replaced by update_schedule while
\* the tick was suspended: the tick's copy carries the restart time, the
\* table's entry has no last_restart and the next_restart update_schedule
\* computed
C35_Witness ==
  /\ ret.op = "restart_done"
  /\ ~DoneItem.live
  /\ DoneItem.value.last_restart = isoformat(sched.tick_now)
  /\ DictHas(schedules, DoneItem.key)
  /\ DictGet(schedules, DoneItem.key).last_restart = None
  /\ DictGet(schedules, DoneItem.key).next_restart # DoneItem.value.next_restart

(***************************************************************************)
(* The database alerts of successive get_bms_status calls                  *)
(***************************************************************************)
\* C36: for each database, the BMS_DB alerts of a process alternate between
\* DISCONNECTED and RECONNECTED in the order they were appended; one call of
\* get_bms_status appends at most one alert per database, and none for a
\* database whose status is the one the previous call stored.
C36_DbAlertsAlternate ==
  /\ [](\A db \in {"HOSXP", "GATEWAY"} :
          \A i, j \in DOMAIN alerts :
            ( /\ i < j
              /\ alerts[i].alert_type[2] = db
              /\ alerts[j].alert_type[2] = db
              /\ alerts[i].process_name = alerts[j].process_name
              /\ \A k \in (i + 1)..(j - 1) : alerts[k].alert_type[2] # db )
            => alerts[i].alert_type[3] # alerts[j].alert_type[3])
  /\ [][\A db \in {"HOSXP", "GATEWAY"} :
          /\ Cardinality({i \in DOMAIN alerts' : alerts'[i].alert_type[2] = db})
               <= Cardinality({i \in DOMAIN alerts : alerts[i].alert_type[2] = db}) + 1
          /\ ( IF db = "HOSXP"
               THEN /\ BMS_EXE \in DOMAIN calc.prev_bms_hosxp_status
                    /\ calc'.prev_bms_hosxp_status = calc.prev_bms_hosxp_status
               ELSE /\ BMS_EXE \in DOMAIN calc.prev_bms_gateway_status
                    /\ calc'.prev_bms_gateway_status = calc.prev_bms_gateway_status )
             => Cardinality({i \in DOMAIN alerts' : alerts'[i].alert_type[2] = db})
                  = Cardinality({i \in DOMAIN alerts : alerts[i].alert_type[2] = db})]_vars

\* the HOSxP database was seen connected, disconnected, connected and
\* disconnected again by four calls: three alerts, alternating
C36_Witness ==
  \E i, j, k \in DOMAIN alerts :
    /\ i < j /\ j < k
    /\ alerts[i].alert_type = <<"BMS_DB", "HOSXP", "DISCONNECTED">>
    /\ alerts[j].alert_type = <<"BMS_DB", "HOSXP", "RECONNECTED">>
    /\ alerts[k].alert_type = <<"BMS_DB", "HOSXP", "DISCONNECTED">>

(***************************************************************************)
(* The saved list of monitored names across restarts of the monitor        *)
(***************************************************************************)
\* the program is started again: ProcessMonitor.__init__ (lines 191-228) with
\* _load_saved_processes (lines 247-263), which calls add_process(name,
\* save=False) for every name of the saved list; the scheduler task of the new
\* program has not been started
MonitorRestart ==
  LET fresh == [mp |-> << >>, pps |-> << >>, pst |-> << >>, psa |-> << >>,
                al |-> << >>, file |-> processes_file, os |-> os_procs,
                dn |-> [n \in Names |-> [first_stopped |-> None, stopped_alerts |-> 0]],
                hist |-> << >>, pm |-> << >>, res |-> None]
      RECURSIVE LoadFrom(_, _)
      LoadFrom(M, process_names) ==
        IF process_names = << >> THEN M
        ELSE LoadFrom(add_process(M, Head(process_names), FALSE), Tail(process_names))
  IN /\ sched.pc = "not_started"
     /\ SetMonitor(LoadFrom(fresh, processes_file))
     /\ alert_settings' = InitialAlertSettings
     /\ thresholds' = InitialThresholds
     /\ ret' = Ret("_load_saved_processes", None, "", 0, processes_file)
     /\ UNCHANGED <<time_vars, next_pid, sched_vars, config_calls, calc, history_length>>

SpecPersistence ==
  /\ Init
  /\ [][\/ \E n \in Names : OSStart(n)
        \/ \E p \in os_procs : OSExit(p)
        \/ MonitorRestart
        \/ \E outcomes \in [Names -> SampleOutcomes] : GetAllProcesses(outcomes)
        \/ \E n \in Names : ApiAddProcess(n)
        \/ \E n \in Names, pid \in {None} \cup {<<i>> : i \in 1..MaxPid} :
             ApiRemoveProcess(n, pid)]_vars

\* C37: a name that was in the saved list when the monitor started leaves the
\* saved list only on a step on which remove_process returns True for it,
\* whether or not its process was running when the list was loaded.
C37_SavedNamesKept ==
  [][\A n \in Names :
       ( /\ ret.op = "_load_saved_processes"
         /\ ret'.op = "_load_saved_processes"
         /\ \E i \in DOMAIN ret.val : ret.val[i] = n
         /\ \E i \in DOMAIN processes_file : processes_file[i] = n
         /\ ~\E i \in DOMAIN processes_file' : processes_file'[i] = n )
       => \E pid \in {None} \cup {<<i>> : i \in 1..MaxPid} :
            /\ ApiRemoveProcess(n, pid)
            /\ remove_process(MonitorState, n, pid).res]_vars

(***************************************************************************)
(* get_recent_alerts                                                       *)
(***************************************************************************)
\* ProcessMonitor.get_recent_alerts(limit): list(self.alerts)[-limit:]
get_recent_alerts(limit) ==
  \* seq[start:] of a Python list: a negative start counts from the end, and
  \* the start is clamped to 0..len(seq)
  LET SliceFrom(seq, start) ==
        LET n == Len(seq)
            first == IF start < 0
                     THEN (IF start + n < 0 THEN 0 ELSE start + n)
                     ELSE (IF start > n THEN n ELSE start)
        IN SubSeq(seq, first + 1, n)
  IN SliceFrom(alerts, 0 - limit)

\* C38: for every limit from 0 up to the default 20, get_recent_alerts(limit)
\* is the sequence of the min(limit, n) newest of the n alerts of the buffer,
\* in insertion order, so never longer than limit.
C38_RecentAlerts ==
  \A limit \in 0..20 :
    LET n == Len(alerts)
        m == IF limit < n THEN limit ELSE n
        recent == get_recent_alerts(limit)
    IN /\ Len(recent) = m
       /\ Len(recent) <= limit
       /\ \A i \in 1..m : recent[i] = alerts[n - m + i]

====
